---------------------------- MODULE Spec2Model ----------------------------
(***************************************************************************)
(* A model of the object store of yosisa/go-git: the pack index lookup,    *)
(* the reference-counted pack entry cache, the loose object writer and     *)
(* reader behind Repository, lazy references, and the mutable tree.        *)
(*                                                                         *)
(* The module holds one specification per component.  Every specification  *)
(* shares the variables below; a component's specification leaves the      *)
(* other components' variables at their initial values.                    *)
(*   SpecIndex      PackIndexV2.Entry                                      *)
(*   SpecPackCache  Pack.entryAt, packEntry.Close and the entry cache      *)
(*   SpecStore      Repository.Object / writeObject, Blob, SparseObject    *)
(*   SpecTree       Tree.Add / Remove / Write and Commit.Write             *)
(***************************************************************************)
EXTENDS Integers, Sequences, FiniteSets, TLC

VARIABLES
  \* ---- pack index (SpecIndex) ----
  idx,            \* the loaded PackIndexV2: Fanout, Objects, Offsets, LargeOffsets
  lookupId,       \* the argument of the last PackIndexV2.Entry call
  lookupResult    \* what that call returned

idxVars == <<idx, lookupId, lookupResult>>

VARIABLES
  \* ---- pack entry cache (SpecPackCache) ----
  cache,          \* packEntryCache: the entry stored under the one key, 0 if none
  nextEntry,      \* the next packEntry to allocate
  entUsed,        \* packEntry.used of every entry
  entBuf,         \* packEntry.buf of every entry: "nil", "loaded", "released"
  entLost,        \* buffers once assigned to packEntry.buf and overwritten unclosed
  evicting,       \* the entries whose eviction callback is in Close, past the
                  \* decrement and before it looks at packEntry.buf
  callerPc,       \* where each caller of entryAt stands
  callerEntry     \* the entry a caller got from the cache or was handed

packVars == <<cache, nextEntry, entUsed, entBuf, entLost, evicting, callerPc,
              callerEntry>>

VARIABLES
  \* ---- repository (SpecStore) ----
  packFiles,      \* what objects/pack/pack-*.pack holds: "none", "valid", "corrupt", "many"
  packObjects,    \* the entries of the valid pack, by hash
  repoPack,       \* Repository.pack: "nil", "empty" or "open"
  objects,        \* the loose store: the file at objects/<h[0:2]>/<h[2:]>, by hash h
  tmpFiles,       \* the temporary files writeObject has left on disk
  refs,           \* the ref files under the repository root, by name
  blobs,          \* the Blob values of the program, by address
  sparses,        \* the SparseObject the model follows (none, or one), with the
                  \* count of its Resolve calls, of the Repository.Object
                  \* calls they made, and the first and the last result
  written,        \* the hashes successful writes have returned
  lastRead,       \* how the last call went, when it was a Repository.Object
  lastWrite,      \* how the last call went, when it was a Write
  prevWrite,      \* the call before the last, when both were successful Writes
  crashed         \* the program has panicked

storeVars == <<packFiles, packObjects, repoPack, objects, tmpFiles, refs, blobs,
               sparses, written, lastRead, lastWrite, prevWrite, crashed>>

VARIABLES
  \* ---- tree (SpecTree) ----
  root,           \* the root Tree the program holds, with all it points to
  ops,            \* how many Add and Remove calls were made on it
  wlog            \* the last call: the writeObject calls of a Write, in order,
                  \* or the Add or Remove and its path

treeVars == <<root, ops, wlog>>

VARIABLES
  \* ---- Repository.Resolve (SpecResolve) ----
  shells,         \* the Blob and Tree values the program holds, by address
  parsed,         \* the addresses of those a Parse has filled from the store
  lastResolve     \* the last Repository.Resolve call: its object before the
                  \* call, whether the store was asked, what it returned

resolveVars == <<shells, parsed, lastResolve>>

VARIABLES
  \* ---- tree entry cache (SpecIntern) ----
  entryHeap,      \* the TreeEntry values of the program, by address, each
                  \* with its SparseObject and the object that holds
  treeEntryCache, \* the cache of newTreeEntry: row bytes to address
  itrees,         \* the two Tree values parsed from the one tree object
  touched         \* the trees a call was made through after they were parsed

internVars == <<entryHeap, treeEntryCache, itrees, touched>>

VARIABLES
  \* ---- conversions (SpecCodec) ----
  input,          \* the bytes handed to parseMode or to a constructor of SHA1
  output          \* what the call returned

codecVars == <<input, output>>

VARIABLES
  \* ---- pack reader (SpecPackRead) ----
  rpos,           \* the offset the packReader of the pack stands at
  pents,          \* the packEntry values entryAt has made, by entry
  lastReadAll     \* the last packEntry.ReadAll call

readVars == <<rpos, pents, lastReadAll>>

VARIABLES
  \* ---- payloads (SpecParse) ----
  pdata,          \* the payload bytes handed to Tree.Parse or Commit.Parse
  pout            \* what the call returned and what it left in the object

parseVars == <<pdata, pout>>

VARIABLES
  \* ---- Tree.Find (SpecFind) ----
  fstore,         \* the objects of the repository Find reads, by hash bytes
  ftree,          \* the root Tree the program holds, with what was resolved
  lastFind        \* the last Find call: its path and what it returned

findVars == <<fstore, ftree, lastFind>>

vars == <<idxVars, packVars, storeVars, treeVars, resolveVars, internVars,
          codecVars, readVars, parseVars, findVars>>

\* What each component's actions leave alone.
notIdxVars == <<packVars, storeVars, treeVars, resolveVars,
               internVars, codecVars, readVars, parseVars, findVars>>
notPackVars == <<idxVars, storeVars, treeVars, resolveVars,
               internVars, codecVars, readVars, parseVars, findVars>>
notStoreVars == <<idxVars, packVars, treeVars, resolveVars,
               internVars, codecVars, readVars, parseVars, findVars>>
notTreeVars == <<idxVars, packVars, packFiles, packObjects, repoPack,
                 tmpFiles, refs, blobs, sparses, written, lastRead, lastWrite,
                 prevWrite, crashed, resolveVars, internVars,
                 codecVars, readVars, parseVars, findVars>>
notResolveVars == <<idxVars, packVars, treeVars, packFiles, packObjects,
                    objects, tmpFiles, refs, blobs, sparses, written, lastRead,
                    lastWrite, prevWrite, crashed, internVars, codecVars,
                    readVars, parseVars, findVars>>
notInternVars == <<idxVars, packVars, storeVars, treeVars, resolveVars,
                   codecVars, readVars, parseVars, findVars>>
notCodecVars == <<idxVars, packVars, storeVars, treeVars, resolveVars,
                  internVars, readVars, parseVars, findVars>>
notReadVars == <<idxVars, packVars, storeVars, treeVars, resolveVars,
                 internVars, codecVars, parseVars, findVars>>
notParseVars == <<idxVars, packVars, storeVars, treeVars, resolveVars,
                  internVars, codecVars, readVars, findVars>>
notFindVars == <<idxVars, packVars, storeVars, treeVars, resolveVars,
                 internVars, codecVars, readVars, parseVars>>

(***************************************************************************)
(*                              Hashes                                     *)
(***************************************************************************)

\* The values a byte of a hash takes in the index model (0..255 in the code).
ByteVals == {0, 1, 2}

\* The largest first byte: the index of the last fanout word (255 in the code).
LastByte == CHOOSE b \in ByteVals : \A c \in ByteVals : c <= b

\* SHA1 values of the index model: byte strings of a fixed length (20 in the
\* code), as sequences of bytes.
IndexHashes == [1..2 -> ByteVals]

\* SHA1.Compare: bytes.Compare of the two arrays, -1, 0 or 1.
RECURSIVE CompareFrom(_, _, _)
CompareFrom(a, b, i) ==
  IF i > Len(a) THEN 0
  ELSE IF a[i] < b[i] THEN -1
  ELSE IF a[i] > b[i] THEN 1
  ELSE CompareFrom(a, b, i + 1)

Compare(a, b) == CompareFrom(a, b, 1)

(***************************************************************************)
(*                    Pack entries and their cache                         *)
(***************************************************************************)

\* The goroutines that call Pack.entryAt on the same (pack, offset) key.
NumCallers == 2

\* How many packEntry values are allocated for the key.
MaxEntries == 2

\* The use count up to which returns without Close are followed.
MaxUsed == 2

\* How many buffers of one entry are followed being dropped without Close.
MaxLost == 2

Callers == 1..NumCallers
Entries == 1..MaxEntries

\* The pack component at rest: an empty cache and no caller in entryAt.
IdlePack ==
  /\ cache = 0
  /\ nextEntry = 1
  /\ entUsed = [e \in Entries |-> 0]
  /\ entBuf = [e \in Entries |-> "nil"]
  /\ entLost = [e \in Entries |-> 0]
  /\ evicting = {}
  /\ callerPc = [c \in Callers |-> "idle"]
  /\ callerEntry = [c \in Callers |-> 0]

\* packEntry.markInUse: atomic.AddInt32(&p.used, 1) > 0
markInUse(used) == [used |-> used + 1, ok |-> used + 1 > 0]

\* packEntry.Close, its atomic step: n := atomic.AddInt32(&p.used, -1); with
\* n < 0 the call goes on to the buffer.
Close(used) == [used |-> used - 1, release |-> used - 1 < 0]

\* packEntry.Close, what follows the decrement when n < 0, with no lock held:
\* p.buf != nil is tested and the buffer that is there is closed.
closeBuf(buf) == IF buf # "nil" THEN "released" ELSE buf

\* Pack.entryAt, first step: packEntryCache.Get(key).
EntryAtGet(c) ==
  /\ callerPc[c] = "idle"
  /\ IF cache # 0
     THEN /\ callerPc' = [callerPc EXCEPT ![c] = "got"]
          /\ callerEntry' = [callerEntry EXCEPT ![c] = cache]
     ELSE /\ callerPc' = [callerPc EXCEPT ![c] = "miss"]
          /\ UNCHANGED callerEntry
  /\ UNCHANGED <<cache, nextEntry, entUsed, entBuf, entLost, evicting,
                 notPackVars>>

\* Pack.entryAt, second step on a hit: entry.markInUse(); the entry is
\* returned if it answers true, and read from the pack otherwise.
EntryAtMark(c) ==
  /\ callerPc[c] = "got"
  /\ LET e == callerEntry[c]
         m == markInUse(entUsed[e])
     IN  /\ entUsed' = [entUsed EXCEPT ![e] = m.used]
         /\ IF m.ok
            THEN /\ callerPc' = [callerPc EXCEPT ![c] = "holding"]
                 /\ UNCHANGED callerEntry
            ELSE /\ callerPc' = [callerPc EXCEPT ![c] = "miss"]
                 /\ callerEntry' = [callerEntry EXCEPT ![c] = 0]
  /\ UNCHANGED <<cache, nextEntry, entBuf, entLost, evicting, notPackVars>>

\* Pack.entryAt on a miss: the header is read, a packEntry with used = 1 is
\* built and added to the cache under the key, and returned.  A base entry
\* has no buffer yet (delta = FALSE); a delta entry holds the applied delta.
EntryAtRead(c, delta) ==
  /\ callerPc[c] = "miss"
  /\ nextEntry <= MaxEntries
  /\ LET e == nextEntry
     IN  /\ entUsed' = [entUsed EXCEPT ![e] = 1]
         /\ entBuf' = [entBuf EXCEPT ![e] = IF delta THEN "loaded" ELSE "nil"]
         /\ cache' = e
         /\ nextEntry' = e + 1
         /\ callerPc' = [callerPc EXCEPT ![c] = "holding"]
         /\ callerEntry' = [callerEntry EXCEPT ![c] = e]
  /\ UNCHANGED <<entLost, evicting, notPackVars>>

\* Pack.entryAt on a miss, failing: a seek or read error, an unknown entry
\* type or a corrupt delta is returned and nothing is cached.
EntryAtFail(c) ==
  /\ callerPc[c] = "miss"
  /\ callerPc' = [callerPc EXCEPT ![c] = "idle"]
  /\ UNCHANGED <<cache, nextEntry, entUsed, entBuf, entLost, callerEntry,
                 evicting, notPackVars>>

\* packEntry.ReadAll by a caller that holds the entry, the test p.buf == nil:
\* with no buffer the caller goes on to decompress the payload; with a buffer
\* (closed or not) its bytes are returned and nothing changes.  The test and
\* the assignment below are separate steps with no lock between them.
ReadAll(c) ==
  /\ callerPc[c] = "holding"
  /\ entBuf[callerEntry[c]] = "nil"
  /\ callerPc' = [callerPc EXCEPT ![c] = "reading"]
  /\ UNCHANGED <<cache, nextEntry, entUsed, entBuf, entLost, callerEntry,
                 evicting, notPackVars>>

\* packEntry.ReadAll, the assignment p.buf = newBytesBuffer(zr): the new
\* buffer takes the place of whatever p.buf holds by now; a buffer another
\* caller loaded in between is dropped without Close.  Drops beyond MaxLost
\* are not followed.
ReadAllAssign(c) ==
  /\ callerPc[c] = "reading"
  /\ LET e == callerEntry[c]
     IN  /\ entBuf[e] = "loaded" => entLost[e] < MaxLost
         /\ entBuf' = [entBuf EXCEPT ![e] = "loaded"]
         /\ entLost' = [entLost EXCEPT
                          ![e] = IF entBuf[e] = "loaded" THEN @ + 1 ELSE @]
  /\ callerPc' = [callerPc EXCEPT ![c] = "holding"]
  /\ UNCHANGED <<cache, nextEntry, entUsed, callerEntry, evicting, notPackVars>>

\* packEntry.ReadAll, the same assignment when newBytesBuffer(zr) fails:
\* p.buf takes the first result of the call before err is tested, the nil
\* that comes with an error, and the error is returned.  A buffer another
\* caller loaded in between is dropped without Close here too.
ReadAllAssignFail(c) ==
  /\ callerPc[c] = "reading"
  /\ LET e == callerEntry[c]
     IN  /\ entBuf[e] = "loaded" => entLost[e] < MaxLost
         /\ entBuf' = [entBuf EXCEPT ![e] = "nil"]
         /\ entLost' = [entLost EXCEPT
                          ![e] = IF entBuf[e] = "loaded" THEN @ + 1 ELSE @]
  /\ callerPc' = [callerPc EXCEPT ![c] = "holding"]
  /\ UNCHANGED <<cache, nextEntry, entUsed, callerEntry, evicting, notPackVars>>

\* packEntry.ReadAll failing before the assignment: Seek or ZlibReader
\* returns an error, which is returned; p.buf is left as it is.
ReadAllFail(c) ==
  /\ callerPc[c] = "reading"
  /\ callerPc' = [callerPc EXCEPT ![c] = "holding"]
  /\ UNCHANGED <<cache, nextEntry, entUsed, entBuf, entLost, callerEntry,
                 evicting, notPackVars>>

\* packEntry.Close by the caller that holds the entry, the decrement: the
\* call is over when the count stays at 0 or above.
CallerClose(c) ==
  /\ callerPc[c] = "holding"
  /\ LET e == callerEntry[c]
         r == Close(entUsed[e])
     IN  /\ entUsed' = [entUsed EXCEPT ![e] = r.used]
         /\ IF r.release
            THEN /\ callerPc' = [callerPc EXCEPT ![c] = "closing"]
                 /\ UNCHANGED callerEntry
            ELSE /\ callerPc' = [callerPc EXCEPT ![c] = "idle"]
                 /\ callerEntry' = [callerEntry EXCEPT ![c] = 0]
  /\ UNCHANGED <<cache, nextEntry, entBuf, entLost, evicting, notPackVars>>

\* packEntry.Close by a caller, after a decrement that went below 0: the
\* buffer the entry has by now is closed, and the call returns.
CallerCloseBuf(c) ==
  /\ callerPc[c] = "closing"
  /\ entBuf' = [entBuf EXCEPT ![callerEntry[c]] = closeBuf(@)]
  /\ callerPc' = [callerPc EXCEPT ![c] = "idle"]
  /\ callerEntry' = [callerEntry EXCEPT ![c] = 0]
  /\ UNCHANGED <<cache, nextEntry, entUsed, entLost, evicting, notPackVars>>

\* Pack.Object: the entry it got from Pack.entry is read and parsed, and the
\* function returns, with the object or with the error of ReadAll; Close is
\* not called.  Calls that leave an entry with more than MaxUsed users are
\* not followed.
PackObjectReturn(c) ==
  /\ callerPc[c] = "holding"
  /\ entUsed[callerEntry[c]] <= MaxUsed
  /\ callerPc' = [callerPc EXCEPT ![c] = "idle"]
  /\ callerEntry' = [callerEntry EXCEPT ![c] = 0]
  /\ UNCHANGED <<cache, nextEntry, entUsed, entBuf, entLost, evicting,
                 notPackVars>>

\* The cache evicts the entry (an Add elsewhere went over the capacity) and
\* runs the eviction callback, which calls Close on it: the decrement.
Evict ==
  /\ cache # 0
  /\ LET e == cache
         r == Close(entUsed[e])
     IN  /\ entUsed' = [entUsed EXCEPT ![e] = r.used]
         /\ evicting' = IF r.release THEN evicting \cup {e} ELSE evicting
  /\ cache' = 0
  /\ UNCHANGED <<nextEntry, entBuf, entLost, callerPc, callerEntry,
                 notPackVars>>

\* The Close of the eviction callback, after a decrement that went below 0:
\* the buffer the entry has by now is closed.
EvictCloseBuf(e) ==
  /\ e \in evicting
  /\ entBuf' = [entBuf EXCEPT ![e] = closeBuf(@)]
  /\ evicting' = evicting \ {e}
  /\ UNCHANGED <<cache, nextEntry, entUsed, entLost, callerPc, callerEntry,
                 notPackVars>>

(*                  Repository: loose objects and packs                    *)
(***************************************************************************)

\* How many Blob values the program allocates.
MaxBlobs == 1

\* How many times Resolve is called on one SparseObject.
MaxResolves == 2

\* The all-zero SHA1 (emptySHA1).
ZeroHash == <<>>

\* SHA1FromBytes(sha1("<typ> <size>\0<payload>")): the digest of the bytes
\* writeObjectData feeds the hasher, taken to be collision free.
HashOf(typ, size, payload) == <<typ, size, payload>>

\* A []byte: nil, or the bytes.
NilBytes == [nil |-> TRUE, bytes |-> <<>>]
Bytes(b) == [nil |-> FALSE, bytes |-> b]

\* An ObjectData: nil, or a reader over bytes that has delivered the first
\* pos of them.  Size() is the length of bytes, whatever was read.
NilData == [nil |-> TRUE, bytes |-> <<>>, pos |-> 0]
NewReader(b) == [nil |-> FALSE, bytes |-> b, pos |-> 0]
Size(data) == Len(data.bytes)
Remaining(data) == SubSeq(data.bytes, data.pos + 1, Len(data.bytes))
Drained(data) == [data EXCEPT !.pos = Len(data.bytes)]

\* The payloads blobs are made of.
Payloads == {<<>>, <<7>>}

\* The hashes callers ask for: those of the blobs over Payloads.
BlobHashes == {HashOf("blob", Len(b), b) : b \in Payloads}

\* The hashes a SparseObject is made for: those, and the zero hash of a
\* reference that points to nothing.
SparseIds == BlobHashes \cup {ZeroHash}

\* The steps of a write that can fail.
FailSteps == {"none", "tempfile", "header", "copy", "mkdir", "rename"}

\* Repository.writeObjectData: the temporary file is created, the header and
\* the payload go through the hasher and the zlib writer, and the deferred
\* zw.Close() and f.Close() run as the function returns.  `file` is what the
\* temporary file holds then.  With a nil ObjectData the call data.Size()
\* panics once the temporary file is there: the deferred calls run and
\* nothing is returned.
writeObjectData(typ, data, fail) ==
  IF fail = "tempfile"
  THEN [id |-> ZeroHash, path |-> "", err |-> "tempfile", data |-> data,
        file |-> [typ |-> "", size |-> 0, payload |-> <<>>],
        events |-> <<>>]
  ELSE IF data.nil
  THEN [id |-> ZeroHash, path |-> "", err |-> "panic", data |-> data,
        file |-> [typ |-> "", size |-> 0, payload |-> <<>>],
        events |-> <<"create", "zclose", "fclose">>]
  ELSE IF fail = "header"
  THEN [id |-> ZeroHash, path |-> "tmp", err |-> "write", data |-> data,
        file |-> [typ |-> "", size |-> 0, payload |-> <<>>],
        events |-> <<"create", "zclose", "fclose">>]
  ELSE IF fail = "copy" /\ Remaining(data) # <<>>
  THEN [id |-> ZeroHash, path |-> "tmp", err |-> "write", data |-> Drained(data),
        file |-> [typ |-> typ, size |-> Size(data), payload |-> <<>>],
        events |-> <<"create", "header", "zclose", "fclose">>]
  ELSE [id |-> HashOf(typ, Size(data), Remaining(data)), path |-> "tmp",
        err |-> "nil", data |-> Drained(data),
        file |-> [typ |-> typ, size |-> Size(data), payload |-> Remaining(data)],
        events |-> <<"create", "header", "copy", "zclose", "fclose">>]

\* Repository.storeAsObject: MkdirAll, then Rename of the temporary file to
\* objects/<s[:2]>/<s[2:]>.
storeAsObject(file, id, objs, fail) ==
  IF fail = "mkdir"
  THEN [err |-> "mkdir", objects |-> objs, events |-> <<>>]
  ELSE IF fail = "rename"
  THEN [err |-> "rename", objects |-> objs, events |-> <<"mkdir">>]
  ELSE [err |-> "nil",
        objects |-> (id :> file) @@ objs,
        events |-> <<"mkdir", "rename">>]

\* The temporary files a writeObject call leaves behind: the file it created,
\* unless the last thing done to it was to remove or to rename it.
TempLeft(events) ==
  IF /\ \E i \in 1..Len(events) : events[i] = "create"
     /\ \A i \in 1..Len(events) : events[i] \notin {"remove", "rename"}
  THEN 1 ELSE 0

\* A writeObject whose deferred function looks at the error of
\* writeObjectData only.
writeObjectKeepsTempAfterStore(typ, data, objs, fail) ==
  LET d == writeObjectData(typ, data, fail)
  IN  IF d.err = "panic"
      THEN [id |-> d.id, err |-> d.err, data |-> d.data, objects |-> objs,
            tmp |-> TempLeft(d.events), events |-> d.events]
      ELSE IF d.err # "nil"
      THEN LET ev == IF d.path # "" THEN Append(d.events, "remove")
                     ELSE d.events
           IN  [id |-> d.id, err |-> d.err, data |-> d.data, objects |-> objs,
                tmp |-> TempLeft(ev), events |-> ev]
      ELSE LET st == storeAsObject(d.file, d.id, objs, fail)
               ev == d.events \o st.events
           IN  [id |-> d.id, err |-> st.err, data |-> d.data,
                objects |-> st.objects, tmp |-> TempLeft(ev), events |-> ev]

\* Repository.writeObject: writeObjectData, then storeAsObject; the deferred
\* function removes the temporary file when an error is returned and a
\* temporary file was named; when writeObjectData panics neither the error
\* nor the path was assigned and the file stays.  tmp is the number of
\* temporary files left.
writeObject(typ, data, objs, fail) ==
  LET d == writeObjectData(typ, data, fail)
  IN  IF d.err = "panic"
      THEN [id |-> d.id, err |-> d.err, data |-> d.data, objects |-> objs,
            tmp |-> TempLeft(d.events), events |-> d.events]
      ELSE IF d.err # "nil"
      THEN LET ev == IF d.path # "" THEN Append(d.events, "remove")
                     ELSE d.events
           IN  [id |-> d.id, err |-> d.err, data |-> d.data, objects |-> objs,
                tmp |-> TempLeft(ev), events |-> ev]
      ELSE LET st == storeAsObject(d.file, d.id, objs, fail)
               ev == IF st.err # "nil"
                     THEN d.events \o st.events \o <<"remove">>
                     ELSE d.events \o st.events
           IN  [id |-> d.id, err |-> st.err, data |-> d.data,
                objects |-> st.objects, tmp |-> TempLeft(ev), events |-> ev]

\* Repository.openPack: what r.pack is after it and the error it returns.
openPack(files) ==
  CASE files = "none"    -> [pack |-> "empty", err |-> "nil"]
    [] files = "valid"   -> [pack |-> "open", err |-> "nil"]
    [] files = "corrupt" -> [pack |-> "nil", err |-> "checksum"]
    [] files = "many"    -> [pack |-> "nil", err |-> "manypacks"]

\* Where a read of the pack file fails during a call: nowhere, in entryAt
\* (the seek to the entry or the read of its header), or in ReadAll of the
\* entry entryAt returned (the seek to the payload or the zlib reader).
IOFails == {"none", "entry", "readall"}

\* Pack.entry: ErrObjectNotFound when the index has no such hash, else what
\* entryAt gives: the entry, or the error of a failed read (io), of an
\* unknown entry type, or of a corrupt delta.
packEntry(pack, id, io) ==
  IF pack = "empty" \/ id \notin DOMAIN packObjects
  THEN [err |-> "notfound", typ |-> "", payload |-> <<>>]
  ELSE IF io = "entry"
  THEN [err |-> "io", typ |-> "", payload |-> <<>>]
  ELSE IF packObjects[id].kind # "good"
  THEN [err |-> packObjects[id].kind, typ |-> "", payload |-> <<>>]
  ELSE [err |-> "nil", typ |-> packObjects[id].typ,
        payload |-> packObjects[id].payload]

\* newLooseObjectEntry and its ReadAll: the file at the path of the hash is
\* opened and inflated, the header is parsed, the payload is what follows.
looseEntry(objs, id) ==
  IF id \notin DOMAIN objs
  THEN [err |-> "notfound", typ |-> "", payload |-> <<>>]
  ELSE IF objs[id].size # Len(objs[id].payload)
  THEN [err |-> "corruptloose", typ |-> "", payload |-> <<>>]
  ELSE [err |-> "nil", typ |-> objs[id].typ, payload |-> objs[id].payload]

\* Repository.entry followed by ReadAll on the entry: the pack is opened if
\* r.pack is nil, the pack is asked, and on any error of the pack the loose
\* store is asked.  When the pack hands out the entry and ReadAll on it
\* fails, that error is returned and the loose store is not asked.  packErr
\* is what Pack.entry answered, loose whether the loose store was consulted,
\* pack the new r.pack, opened whether OpenPack ran on the one pack file of
\* the directory.
repoEntry(pack, files, objs, id, io) ==
  LET op == IF pack = "nil" THEN openPack(files)
            ELSE [pack |-> pack, err |-> "nil"]
      opened == pack = "nil" /\ files \in {"valid", "corrupt"}
  IN  IF op.err # "nil"
      THEN [err |-> op.err, typ |-> "", payload |-> <<>>, pack |-> op.pack,
            packErr |-> op.err, loose |-> FALSE, opened |-> opened]
      ELSE LET pe == packEntry(op.pack, id, io)
           IN  IF pe.err = "nil" /\ io = "readall"
               THEN [err |-> "readall", typ |-> pe.typ, payload |-> <<>>,
                     pack |-> op.pack, packErr |-> "nil", loose |-> FALSE,
                     opened |-> opened]
               ELSE IF pe.err = "nil"
               THEN [err |-> "nil", typ |-> pe.typ, payload |-> pe.payload,
                     pack |-> op.pack, packErr |-> "nil", loose |-> FALSE,
                     opened |-> opened]
               ELSE LET le == looseEntry(objs, id)
                    IN  [err |-> le.err, typ |-> le.typ, payload |-> le.payload,
                         pack |-> op.pack, packErr |-> pe.err, loose |-> TRUE,
                         opened |-> opened]

NoRead == [id |-> ZeroHash, err |-> "none", packErr |-> "none",
           loose |-> FALSE, afterWrite |-> FALSE, opened |-> FALSE]

NoWrite == [op |-> "none", blob |-> 0, err |-> "none", id |-> ZeroHash,
            changed |-> FALSE, events |-> <<>>]

\* A repository that was opened and not used yet, on a directory with no
\* loose objects and no packs.
IdleStore ==
  /\ packFiles = "none"
  /\ packObjects = <<>>
  /\ repoPack = "nil"
  /\ objects = <<>>
  /\ tmpFiles = 0
  /\ refs = <<>>
  /\ blobs = <<>>
  /\ sparses = <<>>
  /\ written = {}
  /\ lastRead = NoRead
  /\ lastWrite = NoWrite
  /\ prevWrite = NoWrite
  /\ crashed = FALSE

\* The entry a pack holds for the blob <<7>>: a good one, one of an unknown
\* type, or a delta that does not apply.
PackKinds == {"good", "unknowntype", "corruptdelta"}

PackEntryFor(kind) ==
  [kind |-> kind, typ |-> "blob", payload |-> <<7>>]

\* Repository.NewBlob(data) with a reader over b.
NewBlob(b) ==
  /\ ~crashed
  /\ Len(blobs) < MaxBlobs
  /\ blobs' = Append(blobs, [id |-> ZeroHash, Data |-> NilBytes, od |-> NewReader(b)])
  /\ prevWrite' = NoWrite
  /\ lastWrite' = NoWrite
  /\ lastRead' = NoRead
  /\ UNCHANGED <<refs, packFiles, packObjects, repoPack, objects, tmpFiles, sparses,
                 written, crashed, notStoreVars>>

\* Blob.Write: a blob with Data gets a fresh reader over it; the blob's od
\* goes to writeObject; the id is set when no error came back.  With no Data
\* and no od, data.Size() is called on a nil interface once the temporary
\* file was made, and the program panics; when the temporary file cannot be
\* made that error is returned first.
blobWrite(b, objs, fail) ==
  LET od == IF Len(b.Data.bytes) > 0 THEN NewReader(b.Data.bytes) ELSE b.od
      w == writeObject("blob", od, objs, fail)
  IN  [panic |-> w.err = "panic",
       sent |-> od,
       blob |-> [b EXCEPT !.id = IF w.err = "nil" THEN w.id ELSE b.id,
                          !.od = w.data],
       w |-> w]

BlobWrite(k, fail) ==
  /\ ~crashed
  /\ LET bw == blobWrite(blobs[k], objects, fail)
         w == bw.w
     IN  IF bw.panic
         THEN /\ crashed' = TRUE
              /\ prevWrite' = NoWrite
              /\ lastWrite' = NoWrite
              /\ tmpFiles' = tmpFiles + w.tmp
              /\ UNCHANGED <<objects, blobs, written>>
         ELSE /\ blobs' = [blobs EXCEPT ![k] = bw.blob]
              /\ objects' = w.objects
              /\ tmpFiles' = tmpFiles + w.tmp
              /\ written' = IF w.err = "nil" THEN written \cup {w.id} ELSE written
              /\ prevWrite' = IF lastWrite.err = "nil" /\ w.err = "nil"
                               THEN lastWrite ELSE NoWrite
              /\ lastWrite' = [op |-> "write", blob |-> k, err |-> w.err,
                               id |-> w.id, changed |-> w.objects # objects,
                               events |-> w.events]
              /\ UNCHANGED crashed
  /\ lastRead' = NoRead
  /\ UNCHANGED <<refs, packFiles, packObjects, repoPack, sparses, notStoreVars>>

\* Repository.Object(id) = readObject(id, nil, false): the entry is found and
\* read, a new object of the entry's type is made and parses the payload.
\* The caller drops the object.
ReadObject(id, io) ==
  /\ ~crashed
  /\ LET e == repoEntry(repoPack, packFiles, objects, id, io)
     IN  /\ repoPack' = e.pack
         /\ lastRead' = [id |-> id, err |-> e.err, packErr |-> e.packErr,
                         loose |-> e.loose, afterWrite |-> id \in written,
                         opened |-> e.opened]
  /\ prevWrite' = NoWrite
  /\ lastWrite' = NoWrite
  /\ UNCHANGED <<refs, packFiles, packObjects, objects, tmpFiles, blobs, sparses,
                 written, crashed, notStoreVars>>

\* newSparseObject(id, repo), before any Resolve.
newSparseObject(id) ==
  [id |-> id, obj |-> 0, err |-> "nil",
   calls |-> 0, queries |-> 0,
   first |-> [obj |-> 0, err |-> "nil"], last |-> [obj |-> 0, err |-> "nil"]]

\* One SparseObject is made and followed.
NewSparse(id) ==
  /\ ~crashed
  /\ sparses = <<>>
  /\ sparses' = Append(sparses, newSparseObject(id))
  /\ prevWrite' = NoWrite
  /\ lastWrite' = NoWrite
  /\ lastRead' = NoRead
  /\ UNCHANGED <<refs, packFiles, packObjects, repoPack, objects, tmpFiles, blobs,
                 written, crashed, notStoreVars>>

\* A Resolve that asks the store again after a failure.
unresolvedIgnoringErr(s) == s.obj = 0

\* SparseObject.Resolve, its test: s.obj == nil && s.err == nil
unresolved(s) == s.obj = 0 /\ s.err = "nil"

\* SparseObject.Resolve: an unresolved reference asks Repository.Object for
\* its id and keeps the object and the error; both are returned.  Every
\* successful Repository.Object makes a new object: obj names the instance by
\* the number of the query that made it, 0 is nil.
SparseResolve(k, io) ==
  /\ ~crashed
  /\ sparses[k].calls < MaxResolves
  /\ LET s == sparses[k]
     IN  IF unresolved(s)
         THEN LET e == repoEntry(repoPack, packFiles, objects, s.id, io)
                  res == [obj |-> IF e.err = "nil" THEN s.queries + 1 ELSE 0,
                          err |-> e.err]
              IN  /\ repoPack' = e.pack
                  /\ sparses' = [sparses EXCEPT ![k] =
                       [id |-> s.id, obj |-> res.obj, err |-> res.err,
                        calls |-> s.calls + 1, queries |-> s.queries + 1,
                        first |-> IF s.calls = 0 THEN res ELSE s.first,
                        last |-> res]]
         ELSE /\ sparses' = [sparses EXCEPT ![k] =
                       [s EXCEPT !.calls = s.calls + 1,
                                 !.first = IF s.calls = 0
                                           THEN [obj |-> s.obj, err |-> s.err]
                                           ELSE s.first,
                                 !.last = [obj |-> s.obj, err |-> s.err]]]
              /\ UNCHANGED repoPack
  /\ prevWrite' = NoWrite
  /\ lastWrite' = NoWrite
  /\ lastRead' = NoRead
  /\ UNCHANGED <<refs, packFiles, packObjects, objects, tmpFiles, blobs, written,
                 crashed, notStoreVars>>

(***************************************************************************)
(*                               Tree                                      *)
(*                                                                         *)
(* A Tree is kept as a value that holds its entries and, in every entry,   *)
(* the object the entry points to: the trees and blobs of this model are   *)
(* reached through one path only.  Entries made by Add hold their object;  *)
(* entries parsed from the store are not part of this model.  Names are    *)
(* strings of bytes.                                                       *)
(***************************************************************************)

\* How many Add and Remove calls the program makes.
MaxOps == 2

\* After how many writeObject calls of one Write a failure can come.
MaxFailAt == 1

ModeTree == 16384
ModeFile == 33188
ModeFileEx == 33261
ModeSymlink == 40960

\* The modes of the format.
AllModes == {ModeTree, ModeFile, ModeFileEx, ModeSymlink}


\* "a" and "a-": as a directory "a" sorts as "a/", after "a-"; as a file,
\* before it.
NameA == <<97>>
NameADash == <<97, 45>>
Slash == <<47>>

\* The paths Add and Remove are called with, after splitPath.
Paths == {<<NameA>>, <<NameADash>>, <<NameA, NameA>>, <<NameA, NameADash>>}

\* splitDirBase
DirOf(path) == SubSeq(path, 1, Len(path) - 1)
BaseOf(path) == path[Len(path)]

\* Repository.NewTree(): no id, Entries nil, not dirty.
NewTree ==
  [kind |-> "tree", id |-> ZeroHash, Entries |-> <<>>, resolved |-> FALSE,
   dirty |-> FALSE]

\* Repository.NewBlob(reader over b), as an object of a tree entry.
NewBlobObject(b) ==
  [kind |-> "blob", id |-> ZeroHash, Data |-> NilBytes, od |-> NewReader(b)]

\* What Add is called with: a new blob under a file mode, or a new tree
\* under the directory mode.
AddInputs ==
  {[obj |-> NewBlobObject(<<7>>), mode |-> ModeFile],
   [obj |-> NewTree, mode |-> ModeTree]}

\* &SparseObject{repo: t.repo, obj: obj}
entryObject(obj) == [id |-> ZeroHash, obj |-> obj]

\* SparseObject.SHA1: the object's id when there is an object.
SHA1(s) == s.obj.id

\* Tree.Resolved
Resolved(t) == t.resolved

\* The tree before any call.
IdleTree ==
  /\ root = NewTree
  /\ ops = 0
  /\ wlog = <<>>

\* a < b for strings, byte by byte.
RECURSIVE StringLess(_, _)
StringLess(a, b) ==
  IF b = <<>> THEN FALSE
  ELSE IF a = <<>> THEN TRUE
  ELSE IF Head(a) # Head(b) THEN Head(a) < Head(b)
  ELSE StringLess(Tail(a), Tail(b))

\* A canonical name that is the bare name for every mode.
canonicalNameBare(e) == e.Name

\* TreeEntry.canonicalName: Mode&ModeTree != 0 gives Name + "/".
canonicalName(e) ==
  IF (e.Mode \div ModeTree) % 2 = 1 THEN e.Name \o Slash ELSE e.Name

\* ByName.Less
Less(x, y) == StringLess(canonicalName(x), canonicalName(y))

\* sort.Sort(ByName(entries)): the entries in the order of Less.
RECURSIVE Insert(_, _)
Insert(sorted, e) ==
  IF sorted = <<>> THEN <<e>>
  ELSE IF Less(e, Head(sorted)) THEN <<e>> \o sorted
  ELSE <<Head(sorted)>> \o Insert(Tail(sorted), e)

RECURSIVE SortByName(_)
SortByName(entries) ==
  IF entries = <<>> THEN <<>>
  ELSE Insert(SortByName(Tail(entries)), Head(entries))

\* strconv.Itoa(n) + s of TreeEntryMode.String, with the digit put last.
RECURSIVE StringReversed(_)
StringReversed(m) ==
  IF m = 0 THEN <<>> ELSE <<48 + (m % 8)>> \o StringReversed(m \div 8)

\* TreeEntryMode.String: the octal digits, as characters, no leading zero.
RECURSIVE String(_)
String(m) ==
  IF m = 0 THEN <<>> ELSE String(m \div 8) \o <<48 + (m % 8)>>

\* parseMode: the mode the octal digits spell; an error on any other byte.
RECURSIVE parseModeFrom(_, _)
parseModeFrom(bs, mode) ==
  IF bs = <<>> THEN [mode |-> mode, err |-> "nil"]
  ELSE IF Head(bs) < 48 \/ Head(bs) > 55
  THEN [mode |-> 0, err |-> "octal"]
  ELSE parseModeFrom(Tail(bs), mode * 8 + (Head(bs) - 48))

parseMode(bs) == parseModeFrom(bs, 0)

\* Tree.findEntry: the place of the entry of that name, 0 when there is none.
findEntry(t, name) ==
  IF \E i \in 1..Len(t.Entries) : t.Entries[i].Name = name
  THEN CHOOSE i \in 1..Len(t.Entries) :
         /\ t.Entries[i].Name = name
         /\ \A j \in 1..(i - 1) : t.Entries[j].Name # name
  ELSE 0

\* An addEntry that does not look for the name.
addEntryAppends(t, name, obj, mode) ==
  [t EXCEPT !.dirty = TRUE,
            !.Entries = Append(@, [Mode |-> mode, Name |-> name,
                                   Object |-> entryObject(obj)]),
            !.resolved = TRUE]

\* Tree.addEntry
addEntry(t, name, obj, mode) ==
  LET i == findEntry(t, name)
      e == [Mode |-> mode, Name |-> name, Object |-> entryObject(obj)]
  IN  IF i # 0
      THEN [t EXCEPT !.dirty = TRUE, !.Entries[i] = e]
      ELSE [t EXCEPT !.dirty = TRUE, !.Entries = Append(@, e),
                     !.resolved = TRUE]

\* A removeEntry that does not mark the tree.
removeEntryNotDirty(t, name) ==
  LET i == findEntry(t, name)
  IN  IF i # 0
      THEN [t EXCEPT !.Entries = SubSeq(@, 1, i - 1) \o SubSeq(@, i + 1, Len(@))]
      ELSE t

\* Tree.removeEntry
removeEntry(t, name) ==
  LET i == findEntry(t, name)
  IN  IF i # 0
      THEN [t EXCEPT !.dirty = TRUE,
                     !.Entries = SubSeq(@, 1, i - 1) \o SubSeq(@, i + 1, Len(@))]
      ELSE t

\* Tree.Add: getSubTree(dir, true) walks down while the entry of the next
\* part is a tree; from the first part that is missing or is no tree,
\* makeSubTrees adds a new tree per part; the entry is added to the last.
\* t.Resolve() returns nil: the tree is resolved, or has no id.
RECURSIVE Add(_, _, _, _, _)
Add(t, dir, name, obj, mode) ==
  IF dir = <<>> THEN addEntry(t, name, obj, mode)
  ELSE LET i == findEntry(t, Head(dir))
       IN  IF i # 0 /\ t.Entries[i].Object.obj.kind = "tree"
           THEN [t EXCEPT !.Entries[i].Object.obj =
                             Add(@, Tail(dir), name, obj, mode)]
           ELSE addEntry(t, Head(dir),
                         Add(NewTree, Tail(dir), name, obj, mode), ModeTree)

\* Tree.Remove: getSubTree(dir, false) gives ErrObjectNotFound when a part
\* is missing or is no tree, and Remove returns nil with nothing done.
RECURSIVE Remove(_, _, _)
Remove(t, dir, name) ==
  IF dir = <<>> THEN removeEntry(t, name)
  ELSE LET i == findEntry(t, Head(dir))
       IN  IF i # 0 /\ t.Entries[i].Object.obj.kind = "tree"
           THEN [t EXCEPT !.Entries[i].Object.obj = Remove(@, Tail(dir), name)]
           ELSE t

\* One writeObject call of a Write: it fails at failStep when it is the
\* failAt-th call, and is written to the log.  st is the store, the log and
\* the count of calls so far.
callWriteObject(typ, payload, isRoot, st) ==
  LET fail == IF st.calls + 1 = st.failAt THEN st.failStep ELSE "none"
      w == writeObject(typ, NewReader(payload), st.objects, fail)
  IN  [id |-> w.id, err |-> w.err,
       st |-> [st EXCEPT !.objects = w.objects,
                         !.calls = @ + 1,
                         !.log = Append(@, [typ |-> typ, payload |-> payload,
                                            id |-> w.id, err |-> w.err,
                                            root |-> isRoot])]]

\* SparseObject.Write on the blob of an entry: Blob.Write, one writeObject
\* call; the payload logged is what the reader handed to writeObject had
\* left to give.
callBlobWrite(b, st) ==
  LET fail == IF st.calls + 1 = st.failAt THEN st.failStep ELSE "none"
      bw == blobWrite(b, st.objects, fail)
  IN  [blob |-> bw.blob, err |-> bw.w.err,
       st |-> [st EXCEPT !.objects = bw.w.objects,
                         !.calls = @ + 1,
                         !.log = Append(@, [typ |-> "blob",
                                            payload |-> Remaining(bw.sent),
                                            id |-> bw.w.id, err |-> bw.w.err,
                                            root |-> FALSE])]]

\* What Tree.write prints of the entries: "<mode> <name>\0<id>" for each but
\* those whose object is a tree with no entries.
RECURSIVE Serialize(_)
Serialize(entries) ==
  IF entries = <<>> THEN <<>>
  ELSE LET e == Head(entries)
       IN  IF e.Object.obj.kind = "tree" /\ Len(e.Object.obj.Entries) = 0
           THEN Serialize(Tail(entries))
           ELSE <<[mode |-> String(e.Mode), name |-> e.Name,
                   id |-> SHA1(e.Object)]>> \o Serialize(Tail(entries))

\* Tree.write: the loop over the entries from the i-th on, then the rest.
\* A subtree is written first, and its parent is dirty when it changed; a
\* blob with no id is written, and the tree is dirty.  A tree that is not
\* dirty is left alone.  A dirty one is sorted, serialized and written.
\* The result of a call is bound once, as the element of a one-element set.
RECURSIVE write(_, _, _), writeEntries(_, _, _)
writeEntries(t, i, st) ==
  IF i > Len(t.Entries) THEN [tree |-> t, st |-> st, err |-> "nil"]
  ELSE IF t.Entries[i].Object.obj.kind = "tree"
  THEN LET afterSubtree(c) ==
             IF c.err # "nil"
             THEN [tree |-> [t EXCEPT !.Entries[i].Object.obj = c.tree],
                   st |-> c.st, err |-> c.err]
             ELSE writeEntries([t EXCEPT !.Entries[i].Object.obj = c.tree,
                                         !.dirty = t.dirty \/ c.changed],
                               i + 1, c.st)
       IN  CHOOSE r \in {afterSubtree(c) :
                          c \in {write(t.Entries[i].Object.obj, st, FALSE)}} :
             TRUE
  ELSE IF SHA1(t.Entries[i].Object) = ZeroHash
  THEN LET afterBlob(c) ==
             IF c.err # "nil"
             THEN [tree |-> [t EXCEPT !.Entries[i].Object.obj = c.blob],
                   st |-> c.st, err |-> c.err]
             ELSE writeEntries([t EXCEPT !.Entries[i].Object =
                                           [id |-> c.blob.id, obj |-> c.blob],
                                         !.dirty = TRUE],
                               i + 1, c.st)
       IN  CHOOSE r \in {afterBlob(c) :
                          c \in {callBlobWrite(t.Entries[i].Object.obj, st)}} :
             TRUE
  ELSE writeEntries(t, i + 1, st)

write(t, st, isRoot) ==
  LET store(sorted, w) ==
        IF w.err # "nil"
        THEN [tree |-> sorted, st |-> w.st, changed |-> FALSE, err |-> w.err]
        ELSE [tree |-> [sorted EXCEPT !.id = w.id, !.dirty = FALSE],
              st |-> w.st, changed |-> TRUE, err |-> "nil"]
      afterEntries(r) ==
        IF r.err # "nil"
        THEN [tree |-> r.tree, st |-> r.st, changed |-> FALSE, err |-> r.err]
        ELSE IF ~r.tree.dirty
        THEN [tree |-> r.tree, st |-> r.st, changed |-> FALSE, err |-> "nil"]
        ELSE CHOOSE x \in
               {store([r.tree EXCEPT !.Entries = sorted], w) :
                  sorted \in {SortByName(r.tree.Entries)},
                  w \in {callWriteObject("tree",
                                         Serialize(SortByName(r.tree.Entries)),
                                         isRoot, r.st)}} : TRUE
  IN  CHOOSE x \in {afterEntries(r) : r \in {writeEntries(t, 1, st)}} : TRUE

\* root.Add(path, obj, mode)
TreeAdd(path, obj, mode) ==
  /\ ops < MaxOps
  /\ root' = Add(root, DirOf(path), BaseOf(path), obj, mode)
  /\ ops' = ops + 1
  /\ wlog' = <<[typ |-> "add", payload |-> path, id |-> ZeroHash,
                err |-> "nil", root |-> FALSE]>>
  /\ UNCHANGED <<objects, notTreeVars>>

\* root.Remove(path)
TreeRemove(path) ==
  /\ ops < MaxOps
  /\ root' = Remove(root, DirOf(path), BaseOf(path))
  /\ ops' = ops + 1
  /\ wlog' = <<[typ |-> "remove", payload |-> path, id |-> ZeroHash,
                err |-> "nil", root |-> FALSE]>>
  /\ UNCHANGED <<objects, notTreeVars>>

\* root.Write()
TreeWrite(failAt, failStep) ==
  \E r \in {write(root, [objects |-> objects, log |-> <<>>, calls |-> 0,
                         failAt |-> failAt, failStep |-> failStep], TRUE)} :
    /\ root' = r.tree
    /\ objects' = r.st.objects
    /\ wlog' = r.st.log
    /\ UNCHANGED <<ops, notTreeVars>>

\* repo.NewCommit(root, nil, author, committer, msg).Write(): the tree line
\* is the id of the tree as it is.
CommitWrite(fail) ==
  LET payload == <<[tree |-> root.id]>>
      w == writeObject("commit", NewReader(payload), objects, fail)
  IN  /\ objects' = w.objects
      /\ wlog' = <<[typ |-> "commit", payload |-> payload, id |-> w.id,
                    err |-> w.err, root |-> FALSE]>>
      /\ UNCHANGED <<root, ops, notTreeVars>>

(***************************************************************************)
(*              Conversions: modes and hashes from text                    *)
(***************************************************************************)

\* How long the mode strings of the model are at most.
MaxDigits == 6

\* How long the hex strings of the model are at most.
MaxHexLen == 42

\* len(SHA1{})
SHA1Len == 20

\* The bytes mode strings are made of: '/', '0', '7', '8'.
ModeBytes == {47, 48, 55, 56}

\* The mode strings parseMode is called with: every string over ModeBytes,
\* "100644" and "8".
ModeInputs ==
  UNION {[1..n -> ModeBytes] : n \in 0..MaxDigits}
  \cup {<<49, 48, 48, 54, 52, 52>>, <<56>>}

\* The lengths of the hex strings: around 0 and around 2 * SHA1Len.
HexLens == {0, 1, 2} \cup ((2 * SHA1Len - 2)..MaxHexLen)

\* The hex strings: one of '0', 'a', 'F' repeated, with 'g' or ' ' at one
\* place or at none.
HexInputs ==
  {[i \in 1..n |-> IF i = at THEN other ELSE fill] :
     n \in HexLens, fill \in {48, 97, 70}, at \in {0, 1, 2, 40, 41},
     other \in {103, 32}}

\* encoding/hex, fromHexChar: the value of a hex digit, 16 for any other
\* byte.
fromHexChar(c) ==
  IF c >= 48 /\ c <= 57 THEN c - 48
  ELSE IF c >= 97 /\ c <= 102 THEN c - 97 + 10
  ELSE IF c >= 65 /\ c <= 70 THEN c - 65 + 10
  ELSE 16

\* encoding/hex, Decode into a buffer of cap bytes: pair after pair; a byte
\* that is no hex digit stops it with InvalidByteError, a pair past the end
\* of the buffer is an index out of range, a last single digit is ErrLength.
RECURSIVE hexDecode(_, _, _)
hexDecode(src, dst, cap) ==
  IF Len(src) = 0 THEN [bytes |-> dst, err |-> "nil"]
  ELSE IF Len(src) = 1
  THEN [bytes |-> dst,
        err |-> IF fromHexChar(src[1]) > 15 THEN "invalidbyte" ELSE "length"]
  ELSE IF fromHexChar(src[1]) > 15 \/ fromHexChar(src[2]) > 15
  THEN [bytes |-> dst, err |-> "invalidbyte"]
  ELSE IF Len(dst) >= cap
  THEN [bytes |-> dst, err |-> "panic"]
  ELSE hexDecode(SubSeq(src, 3, Len(src)),
                 Append(dst, fromHexChar(src[1]) * 16 + fromHexChar(src[2])),
                 cap)

\* copy(sha[:], b) into the zero SHA1: the first SHA1Len bytes of b, zeros
\* after them.
copySHA1(b) == [i \in 1..SHA1Len |-> IF i <= Len(b) THEN b[i] ELSE 0]

\* NewSHA1(s): hex.DecodeString(s), whose buffer is as long as s; the
\* bytes are copied when there was no error.
NewSHA1(s) ==
  LET d == CHOOSE r \in {hexDecode(s, <<>>, Len(s))} : TRUE
  IN  IF d.err = "nil" THEN [sha |-> copySHA1(d.bytes), err |-> "nil"]
      ELSE [sha |-> copySHA1(<<>>), err |-> d.err]

\* SHA1FromHex(b): hex.Decode(sha[:], b), a panic on any error.
SHA1FromHex(b) ==
  LET d == CHOOSE r \in {hexDecode(b, <<>>, SHA1Len)} : TRUE
  IN  IF d.err = "nil" THEN [sha |-> copySHA1(d.bytes), err |-> "nil"]
      ELSE [sha |-> copySHA1(<<>>), err |-> "panic"]

\* SHA1FromHexString(s): NewSHA1(s), a panic on its error.
SHA1FromHexString(s) ==
  LET r == CHOOSE x \in {NewSHA1(s)} : TRUE
  IN  IF r.err = "nil" THEN r ELSE [sha |-> r.sha, err |-> "panic"]

NoOutput == [op |-> "none", err |-> "none", mode |-> 0, str |-> <<>>,
             sha |-> <<>>]

\* Nothing was converted.
IdleCodec ==
  /\ input = <<>>
  /\ output = NoOutput

\* m, err := parseMode(input), and m.String().  The mode strings of the
\* model are short enough for the 32 bits of a TreeEntryMode.
CallParseMode ==
  /\ output = NoOutput
  /\ input \in ModeInputs
  /\ \E r \in {parseMode(input)} :
       output' = [op |-> "parseMode", err |-> r.err, mode |-> r.mode,
                  str |-> String(r.mode), sha |-> <<>>]
  /\ UNCHANGED <<input, notCodecVars>>

\* sha, err := NewSHA1(input)
CallNewSHA1 ==
  /\ output = NoOutput
  /\ \E r \in {NewSHA1(input)} :
       output' = [op |-> "NewSHA1", err |-> r.err, mode |-> 0, str |-> <<>>,
                  sha |-> r.sha]
  /\ UNCHANGED <<input, notCodecVars>>

\* sha := SHA1FromHex(input)
CallSHA1FromHex ==
  /\ output = NoOutput
  /\ \E r \in {SHA1FromHex(input)} :
       output' = [op |-> "SHA1FromHex", err |-> r.err, mode |-> 0,
                  str |-> <<>>, sha |-> r.sha]
  /\ UNCHANGED <<input, notCodecVars>>

\* sha := SHA1FromHexString(input)
CallSHA1FromHexString ==
  /\ output = NoOutput
  /\ \E r \in {SHA1FromHexString(input)} :
       output' = [op |-> "SHA1FromHexString", err |-> r.err, mode |-> 0,
                  str |-> <<>>, sha |-> r.sha]
  /\ UNCHANGED <<input, notCodecVars>>

(***************************************************************************)
(*                         Repository.Resolve                              *)
(*                                                                         *)
(* Blob and Tree values live at addresses: 0 is nil, k > 0 is shells[k].   *)
(* The repository holds a blob, the tree with no entries and a tree with   *)
(* one entry as loose objects.                                             *)
(***************************************************************************)

\* How many objects the program holds.
MaxShells == 2

\* A loose object file: the type and the size of its header, its payload.
LooseOf(typ, payload) ==
  [typ |-> typ, size |-> Len(payload), payload |-> payload]

\* The payload of a tree with the one entry "100644 a\0<id of blob 7>".
OneEntryTree ==
  <<[mode |-> String(ModeFile), name |-> NameA, id |-> HashOf("blob", 1, <<7>>)]>>

\* The payload of a tree whose second entry has the mode "8":
\* "100644 a\0<id of blob 7>" and "8 a-\0<id of blob 7>".
BadModeTree ==
  OneEntryTree
  \o <<[mode |-> <<56>>, name |-> NameADash, id |-> HashOf("blob", 1, <<7>>)]>>

\* The loose objects of the repository SpecResolve opens.
StoredObjects ==
  (HashOf("blob", 1, <<7>>) :> LooseOf("blob", <<7>>))
  @@ (HashOf("blob", 0, <<>>) :> LooseOf("blob", <<>>))
  @@ (HashOf("tree", 0, <<>>) :> LooseOf("tree", <<>>))
  @@ (HashOf("tree", 1, OneEntryTree) :> LooseOf("tree", OneEntryTree))
  @@ (HashOf("tree", 2, BadModeTree) :> LooseOf("tree", BadModeTree))

\* A hash no object of the repository has.
MissingHash == HashOf("blob", 1, <<9>>)

\* Tree.Entries: a nil slice, or a slice with its elements.
NilEntries == [nil |-> TRUE, list |-> <<>>]

\* newBlob(id, repo)
newBlob(id) == [kind |-> "blob", id |-> id, Data |-> NilBytes]

\* newTree(id, repo)
newTree(id) == [kind |-> "tree", id |-> id, Entries |-> NilEntries]

\* newObject(typ, id, repo), for the types this repository holds.
newObject(typ, id) == IF typ = "blob" THEN newBlob(id) ELSE newTree(id)

\* Blob.Parse: Data is a copy of the payload, never nil.
blobParse(b, data) == [obj |-> [b EXCEPT !.Data = Bytes(data)], err |-> "nil"]

\* Tree.Parse: one entry is appended for every "<mode> <name>\0<id>" of the
\* payload; with an empty payload Entries stays as it was.
RECURSIVE treeParse(_, _)
treeParse(t, data) ==
  IF data = <<>> THEN [obj |-> t, err |-> "nil"]
  ELSE LET m == parseMode(Head(data).mode)
       IN  IF m.err # "nil" THEN [obj |-> t, err |-> m.err]
           ELSE treeParse(
                  [t EXCEPT !.Entries =
                     [nil |-> FALSE,
                      list |-> Append(@.list, [Mode |-> m.mode,
                                               Name |-> Head(data).name,
                                               id |-> Head(data).id])]],
                  Tail(data))

\* Object.Parse
Parse(o, data) ==
  IF o.kind = "blob" THEN blobParse(o, data) ELSE treeParse(o, data)

\* Object.Resolved: Blob.Resolved is Data != nil, Tree.Resolved is
\* Entries != nil.
objResolved(o) ==
  IF o.kind = "blob" THEN ~o.Data.nil ELSE ~o.Entries.nil

\* SHA1.Empty
Empty(id) == id = ZeroHash

\* Repository.readObject(id, obj, false): the entry is found and read; with
\* obj nil a new object of the entry's type is made; the object parses the
\* payload.  ptr is the object returned, heap the objects after the call.
readObject(id, ptr, heap, pack, files, objs, io) ==
  LET e == repoEntry(pack, files, objs, id, io)
  IN  IF e.err # "nil"
      THEN [ptr |-> 0, err |-> e.err, heap |-> heap, pack |-> e.pack]
      ELSE LET q == IF ptr = 0 THEN Len(heap) + 1 ELSE ptr
               h == IF ptr = 0 THEN Append(heap, newObject(e.typ, id)) ELSE heap
               r == Parse(h[q], e.payload)
           IN  [ptr |-> q, err |-> r.err, heap |-> [h EXCEPT ![q] = r.obj],
                pack |-> e.pack]

\* Repository.Resolve(obj): nothing when obj.Resolved() or obj.SHA1().Empty(),
\* else readObject(obj.SHA1(), obj, false).
Resolve(ptr, heap, pack, files, objs, io) ==
  IF objResolved(heap[ptr]) \/ Empty(heap[ptr].id)
  THEN [err |-> "nil", heap |-> heap, pack |-> pack, asked |-> FALSE]
  ELSE LET r == readObject(heap[ptr].id, ptr, heap, pack, files, objs, io)
       IN  [err |-> r.err, heap |-> r.heap, pack |-> r.pack, asked |-> TRUE]

NoResolve ==
  [ptr |-> 0, before |-> newBlob(ZeroHash), wasParsed |-> FALSE,
   asked |-> FALSE, err |-> "none", held |-> 0]

\* No object is held and Resolve was not called.
IdleResolve ==
  /\ shells = <<>>
  /\ parsed = {}
  /\ lastResolve = NoResolve

\* The objects the program makes itself: Repository.NewBlob and NewTree give
\* the zero hash, newObject the hash it is called with.
ShellInputs ==
  {newBlob(ZeroHash), newTree(ZeroHash),
   newBlob(HashOf("blob", 1, <<7>>)), newBlob(MissingHash),
   newBlob(HashOf("blob", 0, <<>>)),
   newTree(HashOf("tree", 0, <<>>)), newTree(HashOf("tree", 1, OneEntryTree)),
   newTree(HashOf("tree", 2, BadModeTree))}

\* An object is made and kept.
NewShell(o) ==
  /\ Len(shells) < MaxShells
  /\ shells' = Append(shells, o)
  /\ lastResolve' = NoResolve
  /\ UNCHANGED <<parsed, repoPack, notResolveVars>>

\* obj, err := repo.Object(id), the object kept.
RepoObject(id, io) ==
  /\ Len(shells) < MaxShells
  /\ \E r \in {readObject(id, 0, shells, repoPack, packFiles, objects, io)} :
       /\ shells' = r.heap
       /\ parsed' = IF r.ptr # 0 /\ r.err = "nil"
                     THEN parsed \cup {r.ptr} ELSE parsed
       /\ repoPack' = r.pack
  /\ lastResolve' = NoResolve
  /\ UNCHANGED notResolveVars

\* repo.Resolve(obj) on an object the program holds.
ShellResolve(ptr, io) ==
  /\ \E r \in {Resolve(ptr, shells, repoPack, packFiles, objects, io)} :
       /\ shells' = r.heap
       /\ parsed' = IF r.asked /\ r.err = "nil"
                     THEN parsed \cup {ptr} ELSE parsed
       /\ repoPack' = r.pack
       /\ lastResolve' = [ptr |-> ptr, before |-> shells[ptr],
                           wasParsed |-> ptr \in parsed, asked |-> r.asked,
                           err |-> r.err, held |-> Len(shells)]
  /\ UNCHANGED notResolveVars

\* The name of the tags of the model.
TagName == "v"

\* The tag objects the loose store holds.
TagsStored(objs) == {h \in DOMAIN objs : objs[h].typ = "tag"}

\* objectType(obj), for the objects of the model: blobs and trees.
objectType(o) == o.kind

\* Ref.Write: MkdirAll of the directory of the ref, then the hash is written
\* to the file of the ref's name.
refWrite(name, id, files, fail) ==
  IF fail = "ref"
  THEN [err |-> "ref", refs |-> files]
  ELSE [err |-> "nil", refs |-> (name :> id) @@ files]

\* The refs the program writes itself, and the hashes it gives them.
RefNames == {"refs/heads/master"}
RefIds == {HashOf("blob", 1, <<7>>), MissingHash}

\* repo.NewRef(name, id).Write(): the ref file is written, over the one that
\* is there, or the error is returned and the files are as they were.
RefWrite(name, id, fail) ==
  /\ \E rw \in {refWrite(name, id, refs, fail)} : refs' = rw.refs
  /\ lastResolve' = NoResolve
  /\ UNCHANGED <<shells, parsed, repoPack, packFiles, packObjects, objects,
                 tmpFiles, blobs, sparses, written, lastRead, lastWrite,
                 prevWrite, crashed, idxVars, packVars, treeVars, internVars,
                 codecVars, readVars, parseVars, findVars>>

\* Tag.Write on a tag of the object o: the payload names the hash and the
\* type of the object; it is stored with writeObject and, when that went
\* well, the id is set and the ref refs/tags/<name> is written with it.
tagWrite(o, name, objs, files, fail) ==
  LET payload == <<[object |-> o.id, type |-> objectType(o), tag |-> name]>>
      w == writeObject("tag", NewReader(payload), objs, fail)
      rw == refWrite("refs/tags/" \o name, w.id, files, fail)
  IN  IF w.err # "nil"
      THEN [id |-> ZeroHash, err |-> w.err, w |-> w, refs |-> files]
      ELSE [id |-> w.id, err |-> rw.err, w |-> w, refs |-> rw.refs]

\* repo.NewTag(name, obj, tagger, msg).Write() on an object the program
\* holds, the tag dropped afterwards.  The model follows the calls up to the
\* first that stores a tag object.
TagWrite(ptr, fail) ==
  /\ TagsStored(objects) = {}
  /\ \E t \in {tagWrite(shells[ptr], TagName, objects, refs, fail)} :
       /\ objects' = t.w.objects
       /\ tmpFiles' = tmpFiles + t.w.tmp
       /\ refs' = t.refs
       /\ written' = IF t.w.err = "nil" THEN written \cup {t.w.id}
                      ELSE written
       /\ lastWrite' = [op |-> "tagwrite", blob |-> ptr, err |-> t.err,
                        id |-> t.id, changed |-> t.w.objects # objects,
                        events |-> t.w.events]
  /\ lastResolve' = NoResolve
  /\ UNCHANGED <<shells, parsed, repoPack, packFiles, packObjects, blobs,
                 sparses, lastRead, prevWrite, crashed, idxVars, packVars,
                 treeVars, internVars, codecVars, readVars, parseVars,
                 findVars>>

(***************************************************************************)
(*                        Tree entry cache                                 *)
(*                                                                         *)
(* Two Tree values are parsed from the bytes of one tree object.  Parse    *)
(* takes every entry from newTreeEntry, which keeps one *TreeEntry for     *)
(* every row of bytes.  A TreeEntry lives at an address of entryHeap and   *)
(* holds its SparseObject, which holds the object once resolved.           *)
(***************************************************************************)

\* How many TreeEntry values the program allocates.
MaxHeap == 4

\* The two Tree values.
TreeIds == {1, 2}

\* One row of a tree object: "<mode> <name>\0<id>".
Row(mode, name, id) == [mode |-> String(mode), name |-> name, id |-> id]

\* The tree object of the directory a: one file.
SubRows == <<Row(ModeFile, NameA, HashOf("blob", 1, <<7>>))>>

\* The tree object both trees are parsed from: the directory a, the file a-.
RootRows ==
  <<Row(ModeTree, NameA, HashOf("tree", 1, SubRows)),
    Row(ModeFile, NameADash, HashOf("blob", 1, <<7>>))>>

\* A nil Object, a Blob, a Tree with its entries (addresses) and dirty flag.
NilObject == [kind |-> "nil", Entries |-> <<>>, dirty |-> FALSE]
BlobObject == [kind |-> "blob", Entries |-> <<>>, dirty |-> FALSE]
TreeObject(entries, dirty) ==
  [kind |-> "tree", Entries |-> entries, dirty |-> dirty]

\* newTreeEntry, a miss: the entry parsed from the row.
EntryOfRow(row) ==
  [Mode |-> parseMode(row.mode).mode, Name |-> row.name,
   Object |-> [id |-> row.id, obj |-> NilObject, err |-> "nil"]]

\* &TreeEntry{Mode, Name, &SparseObject{repo, obj}} of addEntry.
EntryOfObject(mode, name, obj) ==
  [Mode |-> mode, Name |-> name,
   Object |-> [id |-> ZeroHash, obj |-> obj, err |-> "nil"]]

\* newTreeEntry(mode, name, id, row, repo): the cached entry of the row, or
\* a new entry that is added to the cache.
newTreeEntry(row, heap, tec) ==
  IF row \in DOMAIN tec
  THEN [ptr |-> tec[row], heap |-> heap, cache |-> tec]
  ELSE [ptr |-> Len(heap) + 1, heap |-> Append(heap, EntryOfRow(row)),
        cache |-> (row :> (Len(heap) + 1)) @@ tec]

\* Tree.Parse: newTreeEntry for every row, the entries appended in order.
RECURSIVE parseRows(_, _, _, _)
parseRows(rows, entries, heap, tec) ==
  IF rows = <<>> THEN [Entries |-> entries, heap |-> heap, cache |-> tec]
  ELSE LET e == newTreeEntry(Head(rows), heap, tec)
       IN  parseRows(Tail(rows), Append(entries, e.ptr), e.heap, e.cache)

\* Tree.findEntry over addresses: the place of the entry of that name, or 0.
findEntryPtr(entries, heap, name) ==
  IF \E i \in 1..Len(entries) : heap[entries[i]].Name = name
  THEN CHOOSE i \in 1..Len(entries) :
         /\ heap[entries[i]].Name = name
         /\ \A j \in 1..(i - 1) : heap[entries[j]].Name # name
  ELSE 0

\* Tree.addEntry (helper.go): a new TreeEntry takes the place of the entry of
\* that name or is appended; the tree is dirty.  t is a TreeObject.
addEntryPtr(t, heap, name, obj, mode) ==
  LET i == findEntryPtr(t.Entries, heap, name)
      ptr == Len(heap) + 1
  IN  [tree |-> TreeObject(IF i # 0 THEN [t.Entries EXCEPT ![i] = ptr]
                           ELSE Append(t.Entries, ptr), TRUE),
       heap |-> Append(heap, EntryOfObject(mode, name, obj))]

\* Tree.removeEntry (helper.go)
removeEntryPtr(t, heap, name) ==
  LET i == findEntryPtr(t.Entries, heap, name)
  IN  IF i = 0 THEN t
      ELSE TreeObject(SubSeq(t.Entries, 1, i - 1)
                      \o SubSeq(t.Entries, i + 1, Len(t.Entries)), TRUE)

\* Tree.AddEntry (tree.go:471-484): the entry of that name gets the mode and
\* the hash, in place; with no such entry a new one is appended.
AddEntryInPlace(t, heap, name, id, mode) ==
  LET i == findEntryPtr(t.Entries, heap, name)
  IN  IF i # 0
      THEN [tree |-> t,
            heap |-> [heap EXCEPT ![t.Entries[i]].Mode = mode,
                                  ![t.Entries[i]].Object.id = id]]
      ELSE [tree |-> TreeObject(Append(t.Entries, Len(heap) + 1), t.dirty),
            heap |-> Append(heap, [Mode |-> mode, Name |-> name,
                                   Object |-> [id |-> id, obj |-> NilObject,
                                               err |-> "nil"]])]

\* SparseObject.Resolve on the SparseObject of the entry at ptr: with no
\* object and no error Repository.Object(id) is asked, and its answer is kept
\* in the SparseObject.  The repository holds the two trees and the blob.
entryResolve(ptr, heap, tec) ==
  LET so == heap[ptr].Object
  IN  IF so.obj.kind # "nil" \/ so.err # "nil"
      THEN [heap |-> heap, cache |-> tec]
      ELSE IF so.id = HashOf("tree", 1, SubRows)
      THEN LET pr == parseRows(SubRows, <<>>, heap, tec)
           IN  [heap |-> [pr.heap EXCEPT ![ptr].Object.obj =
                            TreeObject(pr.Entries, FALSE)],
                cache |-> pr.cache]
      ELSE IF so.id = HashOf("blob", 1, <<7>>)
      THEN [heap |-> [heap EXCEPT ![ptr].Object.obj = BlobObject],
            cache |-> tec]
      ELSE [heap |-> [heap EXCEPT ![ptr].Object.err = "notfound"],
            cache |-> tec]

\* No tree was parsed.
NoTree == [kind |-> "none", Entries |-> <<>>, dirty |-> FALSE]

IdleIntern ==
  /\ entryHeap = <<>>
  /\ treeEntryCache = <<>>
  /\ itrees = [k \in TreeIds |-> NoTree]
  /\ touched = {}

\* t, _ := repo.Object(id of RootRows): a new Tree parses the bytes.
ParseTree(k) ==
  /\ itrees[k].kind = "none"
  /\ \E pr \in {parseRows(RootRows, <<>>, entryHeap, treeEntryCache)} :
       /\ entryHeap' = pr.heap
       /\ treeEntryCache' = pr.cache
       /\ itrees' = [itrees EXCEPT ![k] = TreeObject(pr.Entries, FALSE)]
  /\ UNCHANGED <<touched, notInternVars>>

\* t.AddEntry(name, id, mode) on tree k.
TreeAddEntry(k, name, id, mode) ==
  /\ itrees[k].kind = "tree"
  /\ Len(entryHeap) < MaxHeap
  /\ \E r \in {AddEntryInPlace(itrees[k], entryHeap, name, id, mode)} :
       /\ entryHeap' = r.heap
       /\ itrees' = [itrees EXCEPT ![k] = r.tree]
  /\ touched' = touched \cup {k}
  /\ UNCHANGED <<treeEntryCache, notInternVars>>

\* t.Add(path, obj, mode) on tree k with a new blob (helper.go): getSubTree
\* resolves the entry of every directory of the path and goes into it when
\* it is a tree; makeSubTrees adds the directories that are missing; the
\* entry is added to the tree reached.
InternAdd(k, path, mode) ==
  /\ itrees[k].kind = "tree"
  /\ Len(entryHeap) + Len(path) <= MaxHeap
  /\ LET t == itrees[k]
         name == BaseOf(path)
     IN  IF DirOf(path) = <<>>
         THEN \E r \in {addEntryPtr(t, entryHeap, name, BlobObject, mode)} :
                /\ entryHeap' = r.heap
                /\ itrees' = [itrees EXCEPT ![k] = r.tree]
                /\ UNCHANGED treeEntryCache
         ELSE LET i == findEntryPtr(t.Entries, entryHeap, DirOf(path)[1])
                  ptr == IF i = 0 THEN 0 ELSE t.Entries[i]
              IN  \E rs \in {IF i = 0
                              THEN [heap |-> entryHeap, cache |-> treeEntryCache]
                              ELSE entryResolve(ptr, entryHeap, treeEntryCache)} :
                    /\ treeEntryCache' = rs.cache
                    /\ IF i # 0 /\ rs.heap[ptr].Object.err # "nil"
                       THEN /\ entryHeap' = rs.heap
                            /\ UNCHANGED itrees
                       ELSE IF i # 0 /\ rs.heap[ptr].Object.obj.kind = "tree"
                       THEN \E r \in {addEntryPtr(rs.heap[ptr].Object.obj,
                                                  rs.heap, name, BlobObject,
                                                  mode)} :
                              /\ entryHeap' =
                                   [r.heap EXCEPT ![ptr].Object.obj = r.tree]
                              /\ UNCHANGED itrees
                       ELSE \E sub \in {addEntryPtr(TreeObject(<<>>, FALSE),
                                                    rs.heap, name, BlobObject,
                                                    mode)} :
                              \E r \in {addEntryPtr(t, sub.heap,
                                                    DirOf(path)[1], sub.tree,
                                                    ModeTree)} :
                                /\ entryHeap' = r.heap
                                /\ itrees' = [itrees EXCEPT ![k] = r.tree]
  /\ touched' = touched \cup {k}
  /\ UNCHANGED notInternVars

\* t.Remove(path) on tree k (helper.go): getSubTree without create, then
\* removeEntry in the tree reached; nothing when the path leads nowhere.
InternRemove(k, path) ==
  /\ itrees[k].kind = "tree"
  /\ LET t == itrees[k]
         name == BaseOf(path)
     IN  IF DirOf(path) = <<>>
         THEN /\ itrees' = [itrees EXCEPT ![k] =
                             removeEntryPtr(t, entryHeap, name)]
              /\ UNCHANGED <<entryHeap, treeEntryCache>>
         ELSE LET i == findEntryPtr(t.Entries, entryHeap, DirOf(path)[1])
                  ptr == IF i = 0 THEN 0 ELSE t.Entries[i]
              IN  IF i = 0
                  THEN UNCHANGED <<entryHeap, treeEntryCache, itrees>>
                  ELSE \E rs \in {entryResolve(ptr, entryHeap,
                                               treeEntryCache)} :
                         /\ treeEntryCache' = rs.cache
                         /\ entryHeap' =
                              IF rs.heap[ptr].Object.obj.kind = "tree"
                              THEN [rs.heap EXCEPT ![ptr].Object.obj =
                                      removeEntryPtr(@, rs.heap, name)]
                              ELSE rs.heap
                         /\ UNCHANGED itrees
  /\ touched' = touched \cup {k}
  /\ UNCHANGED notInternVars

\* t.Entries[i].Object.Resolve() on tree k.
EntryResolve(k, i) ==
  /\ itrees[k].kind = "tree"
  /\ i \in 1..Len(itrees[k].Entries)
  /\ \E rs \in {entryResolve(itrees[k].Entries[i], entryHeap,
                              treeEntryCache)} :
       /\ entryHeap' = rs.heap
       /\ treeEntryCache' = rs.cache
  /\ touched' = touched \cup {k}
  /\ UNCHANGED <<itrees, notInternVars>>

(***************************************************************************)
(*                  Pack reader and packEntry.ReadAll                      *)
(*                                                                         *)
(* A pack with base entries one after the other.  The packReader is one    *)
(* file position shared by all entries of the pack: Seek sets it, reading  *)
(* a header or a compressed stream moves it on.                            *)
(***************************************************************************)

\* How many entries the pack holds.
NumPackEntries == 3

PackEntries == 1..NumPackEntries

\* The pack file: each entry is HeaderLenOf bytes of header and ZlibLenOf
\* bytes of compressed payload; the first entry follows the PackHeader.
PackHeaderLen == 12
HeaderLenOf(e) == 1 + (e % 2)
ZlibLenOf(e) == 2 + e

RECURSIVE OffsetOf(_)
OffsetOf(e) ==
  IF e = 1 THEN PackHeaderLen
  ELSE OffsetOf(e - 1) + HeaderLenOf(e - 1) + ZlibLenOf(e - 1)

\* Where the compressed payload of an entry starts and where it ends.
PayloadStart(e) == OffsetOf(e) + HeaderLenOf(e)
PayloadEnd(e) == PayloadStart(e) + ZlibLenOf(e)

\* The length of the file: the entries and the trailing checksum.
PackFileLen == PayloadEnd(NumPackEntries) + 20

\* packReader.Offset(): the current offset.
Offset(pos) == pos

\* packReader.Seek(abs, os.SEEK_SET)
Seek(pos, abs) == abs

\* packReader.ZlibReader() read to its end and closed, from position pos,
\* for entry e: from the start of the payload it gives the payload, and the
\* reader is left at the end of the stream or, having read ahead, at the end
\* of the file.  From anywhere else the bytes are no stream of this entry:
\* an error, or bytes that are not the payload.
ZlibOutcomes(e, pos) ==
  IF pos = PayloadStart(e)
  THEN {[buf |-> "payload", err |-> "nil", pos |-> q] :
          q \in {PayloadEnd(e), PackFileLen}}
  ELSE {[buf |-> "nil", err |-> "zlib", pos |-> pos],
        [buf |-> "garbage", err |-> "nil", pos |-> PackFileLen]}

\* packEntry.ReadAll, the positioning before the zlib reader is made:
\* if p.pr.Offset() != p.offset, Seek(p.offset + headerLen).
readAllPosition(pos, e) ==
  IF Offset(pos) # OffsetOf(e) THEN Seek(pos, PayloadStart(e)) ELSE pos

\* The packEntry of an entry entryAt was not called for.
NoPackEntry == [made |-> FALSE, buf |-> "nil"]

NoReadAll == [e |-> 0, hadBuf |-> FALSE, zlib |-> FALSE, start |-> 0,
              err |-> "none", buf |-> "nil"]

\* What pout holds before a payload is parsed.
NoParse == [op |-> "none", err |-> "none", obj |-> <<>>]

\* Nothing was parsed.
IdleParse ==
  /\ pdata = <<>>
  /\ pout = NoParse

\* What lastFind holds before a Find call.
NoFind == [op |-> "none", path |-> <<>>, spare |-> <<>>, id |-> <<>>,
           mode |-> 0, err |-> "none"]

\* No repository is open for Find.
IdleFind ==
  /\ fstore = <<>>
  /\ ftree = <<>>
  /\ lastFind = NoFind

\* No pack was opened.
IdlePackRead ==
  /\ rpos = 0
  /\ pents = [e \in PackEntries |-> NoPackEntry]
  /\ lastReadAll = NoReadAll

\* Pack.entryAt(offset) of a base entry that is not in the cache: Seek to
\* the offset, the header is read, the entry is made with no buffer.
PackEntryAt(e) ==
  /\ ~pents[e].made
  /\ rpos' = Seek(rpos, OffsetOf(e)) + HeaderLenOf(e)
  /\ pents' = [pents EXCEPT ![e] = [made |-> TRUE, buf |-> "nil"]]
  /\ lastReadAll' = NoReadAll
  /\ UNCHANGED notReadVars

\* packEntry.ReadAll: with no buffer the reader is positioned, a zlib reader
\* is made and read into the buffer; with a buffer its bytes are returned.
PackReadAll(e) ==
  /\ pents[e].made
  /\ IF pents[e].buf = "nil"
     THEN \E o \in ZlibOutcomes(e, readAllPosition(rpos, e)) :
            /\ rpos' = o.pos
            /\ pents' = [pents EXCEPT ![e].buf = o.buf]
            /\ lastReadAll' = [e |-> e, hadBuf |-> FALSE, zlib |-> TRUE,
                                start |-> readAllPosition(rpos, e),
                                err |-> o.err, buf |-> o.buf]
     ELSE /\ lastReadAll' = [e |-> e, hadBuf |-> TRUE, zlib |-> FALSE,
                              start |-> 0, err |-> "nil",
                              buf |-> pents[e].buf]
          /\ UNCHANGED <<rpos, pents>>
  /\ UNCHANGED notReadVars

(***************************************************************************)
(*                            Pack index                                   *)
(***************************************************************************)

\* How many objects the index of the model holds at most.
MaxObjects == 3

\* A uint32 of the Offsets table, kept as its top bit and its low 31 bits.
U32(top, low) == [top |-> top, low |-> low]

\* An int64 / uint64, kept as hi * 2^31 + lo with lo < 2^31.
I64(hi, lo) == [hi |-> hi, lo |-> lo]

\* int64(w) of a uint32 w: the value is unchanged, the top bit is bit 31.
Int64OfU32(w) == I64(w.top, w.low)

\* The PackIndexEntry pointer Entry returns; found = FALSE is nil.
NilEntry == [found |-> FALSE, ID |-> <<>>, Offset |-> I64(0, 0)]

\* sort.Search(n, f) with f(i) = entries[i].Compare(id) >= 0, which also sets
\* `found` when a probe compares equal.  i and j are the 0-based bounds.
RECURSIVE SearchLoop(_, _, _, _, _)
SearchLoop(entries, id, i, j, found) ==
  IF i < j
  THEN LET h == (i + j) \div 2
           n == Compare(entries[h + 1], id)
           f == found \/ n = 0
       IN  IF ~(n >= 0)
           THEN SearchLoop(entries, id, h + 1, j, f)
           ELSE SearchLoop(entries, id, i, h, f)
  ELSE [x |-> i, found |-> found]

\* A lookup that trusts the search position without the found flag.
EntryNoFoundCheck(ix, id) ==
  LET lower == IF id[1] # 0 THEN ix.Fanout[id[1] - 1] ELSE 0
      upper == ix.Fanout[id[1]]
      entries == SubSeq(ix.Objects, lower + 1, upper)
      s == SearchLoop(entries, id, 0, Len(entries), FALSE)
  IN  IF s.x >= Len(entries)
      THEN NilEntry
      ELSE [found |-> TRUE, ID |-> id,
            Offset |-> Int64OfU32(ix.Offsets[s.x + lower + 1])]

\* PackIndexV2.Entry
Entry(ix, id) ==
  LET lower == IF id[1] # 0 THEN ix.Fanout[id[1] - 1] ELSE 0
      upper == ix.Fanout[id[1]]
      entries == SubSeq(ix.Objects, lower + 1, upper)
      s == SearchLoop(entries, id, 0, Len(entries), FALSE)
  IN  IF ~s.found
      THEN NilEntry
      ELSE [found |-> TRUE, ID |-> id,
            Offset |-> Int64OfU32(ix.Offsets[s.x + lower + 1])]

\* The fanout table of an index file: Fanout[b] is the number of objects whose
\* first byte is at most b.
FanoutOf(objs) ==
  [b \in ByteVals |-> Cardinality({k \in 1..Len(objs) : objs[k][1] <= b})]

\* Strictly ascending sequences of hashes of length n.
AscendingHashes(n) ==
  {s \in [1..n -> IndexHashes] : \A k \in 1..(n - 1) : Compare(s[k], s[k + 1]) < 0}

\* The offset table an index writer emits for n objects of which those at the
\* positions of `big` lie beyond 2^31: a small offset is stored as it is, a
\* large one as the top bit plus its rank in LargeOffsets.
OffsetsOf(n, big) ==
  [k \in 1..n |->
     IF k \in big
     THEN U32(1, Cardinality({m \in big : m < k}))
     ELSE U32(0, 12 * k)]

LargeOffsetsOf(big) ==
  [j \in 1..Cardinality(big) |-> I64(2, 40 * j)]

\* The state after OpenPackIndex of a well-formed index file.
InitIndex ==
  /\ \E n \in 0..MaxObjects :
       \E objs \in AscendingHashes(n) :
         \E big \in SUBSET (1..n) :
           idx = [Fanout |-> FanoutOf(objs),
                  Objects |-> objs,
                  Offsets |-> OffsetsOf(n, big),
                  LargeOffsets |-> LargeOffsetsOf(big)]
  /\ lookupId = <<>>
  /\ lookupResult = NilEntry
  /\ IdlePack
  /\ IdleStore
  /\ IdleTree
  /\ IdleResolve
  /\ IdleIntern
  /\ IdleCodec
  /\ IdlePackRead /\ IdleParse /\ IdleFind

\* A caller looks a hash up.
LookupEntry(id) ==
  /\ lookupId' = id
  /\ lookupResult' = Entry(idx, id)
  /\ UNCHANGED <<idx, notIdxVars>>

NextIndex == \E id \in IndexHashes : LookupEntry(id)

SpecIndex == InitIndex /\ [][NextIndex]_vars

\* The position (1-based) a linear scan of Objects finds id at, 0 if none.
LinearScan(objs, id) ==
  IF \E k \in 1..Len(objs) : objs[k] = id
  THEN CHOOSE k \in 1..Len(objs) :
         objs[k] = id /\ \A m \in 1..(k - 1) : objs[m] # id
  ELSE 0

IndexLookedUp == lookupId # <<>>

\* C6: on a well-formed index, Entry(h) is the entry at the position a linear
\* scan of Objects finds h at, for every h present, and nil for every h not
\* present.
C6_EntryAgreesWithLinearScan ==
  IndexLookedUp =>
    LET k == LinearScan(idx.Objects, lookupId)
    IN  IF k = 0
        THEN lookupResult = NilEntry
        ELSE /\ lookupResult.found
             /\ lookupResult.ID = lookupId
             /\ lookupResult.Offset = Int64OfU32(idx.Offsets[k])

\* A lookup of an absent hash that shares its first byte with two present
\* ones and sorts between them has returned nil, and ...
C6_WitnessAbsent ==
  /\ IndexLookedUp
  /\ LinearScan(idx.Objects, lookupId) = 0
  /\ \E a, b \in 1..Len(idx.Objects) :
       /\ idx.Objects[a][1] = lookupId[1] /\ idx.Objects[b][1] = lookupId[1]
       /\ Compare(idx.Objects[a], lookupId) < 0
       /\ Compare(idx.Objects[b], lookupId) > 0
  /\ lookupResult = NilEntry

\* ... a lookup of a present hash in a bucket of three, behind a non-empty
\* bucket, has returned the entry.
C6_Witness ==
  /\ IndexLookedUp
  /\ Len(idx.Objects) = 3
  /\ idx.Objects[1][1] < idx.Objects[2][1]
  /\ idx.Objects[2][1] = idx.Objects[3][1]
  /\ lookupId = idx.Objects[3]
  /\ lookupResult.found
  /\ lookupResult.Offset = Int64OfU32(idx.Offsets[3])

\* The pack offset the index format gives the entry at position k.
FormatOffset(ix, k) ==
  IF ix.Offsets[k].top = 0
  THEN I64(0, ix.Offsets[k].low)
  ELSE ix.LargeOffsets[ix.Offsets[k].low + 1]

\* C7: on a hit at position k the offset returned is Offsets[k] when its top
\* bit is clear and LargeOffsets[Offsets[k] & 0x7FFFFFFF] when it is set; the
\* raw word with its top bit set is never returned.
C7_LargeOffsetsResolved ==
  (IndexLookedUp /\ lookupResult.found) =>
    /\ lookupResult.Offset = FormatOffset(idx, LinearScan(idx.Objects, lookupId))
    /\ ~(\E k \in 1..Len(idx.Offsets) :
           idx.Offsets[k].top = 1 /\ lookupResult.Offset = Int64OfU32(idx.Offsets[k]))

(***************************************************************************)
(*                 Specification of the pack entry cache                   *)
(***************************************************************************)

IdleIndex ==
  /\ idx = [Fanout |-> FanoutOf(<<>>), Objects |-> <<>>,
            Offsets |-> <<>>, LargeOffsets |-> <<>>]
  /\ lookupId = <<>>
  /\ lookupResult = NilEntry

InitPackCache ==
  /\ IdlePack /\ IdleIndex /\ IdleStore /\ IdleTree
  /\ IdleResolve /\ IdleIntern /\ IdleCodec /\ IdlePackRead /\ IdleParse /\ IdleFind

NextPackCache ==
  \/ \E c \in Callers : EntryAtGet(c)
  \/ \E c \in Callers : EntryAtMark(c)
  \/ \E c \in Callers : \E delta \in BOOLEAN : EntryAtRead(c, delta)
  \/ \E c \in Callers : EntryAtFail(c)
  \/ \E c \in Callers : ReadAll(c)
  \/ \E c \in Callers : ReadAllAssign(c)
  \/ \E c \in Callers : ReadAllAssignFail(c)
  \/ \E c \in Callers : ReadAllFail(c)
  \/ \E c \in Callers : CallerClose(c)
  \/ \E c \in Callers : CallerCloseBuf(c)
  \/ \E c \in Callers : PackObjectReturn(c)
  \/ Evict
  \/ \E e \in Entries : EvictCloseBuf(e)

SpecPackCache == InitPackCache /\ [][NextPackCache]_vars

Holds(c, e) == callerPc[c] \in {"holding", "reading"} /\ callerEntry[c] = e

\* C1: under every interleaving of entryAt callers, consumer Close calls and
\* evictions, the payload buffer of an entry is released only when no caller
\* that was handed the entry still has it un-Closed and the entry is not in
\* the cache; entryAt never hands out an entry whose payload is released.
C1_ReleasedOnlyWhenUnused ==
  \A e \in Entries :
    entBuf[e] = "released" => (cache # e /\ \A c \in Callers : ~Holds(c, e))

(***************************************************************************)
(*                    Specification of the repository                      *)
(***************************************************************************)

\* Open(path) on a repository directory: no pack, one valid pack that holds
\* nothing or one entry, one corrupt pack, or several packs.
InitStore ==
  /\ packFiles \in {"none", "valid", "corrupt", "many"}
  /\ \/ packObjects = <<>>
     \/ /\ packFiles = "valid"
        /\ \E k \in PackKinds :
             packObjects = (HashOf("blob", 1, <<7>>) :> PackEntryFor(k))
  /\ repoPack = "nil"
  /\ objects = <<>>
  /\ tmpFiles = 0
  /\ refs = <<>>
  /\ blobs = <<>>
  /\ sparses = <<>>
  /\ written = {}
  /\ lastRead = NoRead
  /\ lastWrite = NoWrite
  /\ prevWrite = NoWrite
  /\ crashed = FALSE
  /\ IdleIndex
  /\ IdlePack
  /\ IdleTree
  /\ IdleResolve
  /\ IdleIntern
  /\ IdleCodec
  /\ IdlePackRead /\ IdleParse /\ IdleFind

NextStore ==
  \/ \E b \in Payloads : NewBlob(b)
  \/ \E k \in 1..Len(blobs) : \E fail \in FailSteps : BlobWrite(k, fail)
  \/ \E id \in BlobHashes \cup written : \E io \in IOFails : ReadObject(id, io)
  \/ \E id \in SparseIds : NewSparse(id)
  \/ \E k \in 1..Len(sparses) : \E io \in IOFails : SparseResolve(k, io)

SpecStore == InitStore /\ [][NextStore]_vars

\* The place of event e in a write's sequence of file operations, 0 if none.
EventAt(events, e) ==
  IF \E i \in 1..Len(events) : events[i] = e
  THEN CHOOSE i \in 1..Len(events) : events[i] = e
  ELSE 0

\* C2: once a write has returned hash h, every later Repository.Object(h)
\* finds the object, in the loose store at the path of h, and the rename into
\* the objects directory comes after the zlib writer and the file were
\* closed.
C2_ReadAfterWrite ==
  /\ \A h \in written : h \in DOMAIN objects
  /\ lastRead.afterWrite => lastRead.err = "nil"
  /\ EventAt(lastWrite.events, "rename") > 0 =>
       /\ EventAt(lastWrite.events, "zclose") \in
            1..(EventAt(lastWrite.events, "rename") - 1)
       /\ EventAt(lastWrite.events, "fclose") \in
            1..(EventAt(lastWrite.events, "rename") - 1)

LastTwoWritesOfOneBlob ==
  /\ lastWrite.op = "write" /\ lastWrite.err = "nil"
  /\ prevWrite.op = "write" /\ prevWrite.err = "nil"
  /\ prevWrite.blob = lastWrite.blob

\* C3: Write twice in a row on one object gives the same hash both times and
\* the second Write leaves the store as the first left it.
C3_WriteIdempotent ==
  LastTwoWritesOfOneBlob =>
    /\ lastWrite.id = prevWrite.id
    /\ ~lastWrite.changed

\* C4: Repository.entry consults the loose store only when the pack reported
\* not-found; any other pack error is returned as it is.
C4_OnlyNotFoundFallsBack ==
  /\ lastRead.loose => lastRead.packErr = "notfound"
  /\ lastRead.packErr \in {"io", "unknowntype", "corruptdelta"} =>
       lastRead.err = lastRead.packErr

\* C5: over any sequence of Resolve calls on a SparseObject the store is
\* asked at most once, by the first call, and every later call returns what
\* the first returned: the same object, or the same error.
C5_ResolveAtMostOnce ==
  \A k \in 1..Len(sparses) :
    /\ sparses[k].queries <= 1
    /\ sparses[k].calls >= 1 =>
         /\ sparses[k].queries = 1
         /\ sparses[k].last = sparses[k].first

\* A reference whose first Resolve failed was resolved again after the object
\* had been written to the store, and returned the first error.
C5_Witness ==
  \E k \in 1..Len(sparses) :
    /\ sparses[k].calls >= 2
    /\ sparses[k].first.err # "nil"
    /\ sparses[k].last = sparses[k].first
    /\ looseEntry(objects, sparses[k].id).err = "nil"
    /\ repoPack # "nil"

\* A reference was resolved twice and returned the one object both times.
C5_WitnessSuccess ==
  \E k \in 1..Len(sparses) :
    /\ sparses[k].calls >= 2
    /\ sparses[k].first.err = "nil"
    /\ sparses[k].first.obj # 0
    /\ sparses[k].last = sparses[k].first

(***************************************************************************)
(*                       Specification of the tree                         *)
(***************************************************************************)

InitTree ==
  IdleTree /\ IdleStore /\ IdleIndex /\ IdlePack /\ IdleResolve
  /\ IdleIntern
  /\ IdleCodec
  /\ IdlePackRead /\ IdleParse /\ IdleFind

NextTree ==
  \/ \E path \in Paths : \E in \in AddInputs :
       TreeAdd(path, in.obj, in.mode)
  \/ \E path \in Paths : TreeRemove(path)
  \/ \E failAt \in 0..MaxFailAt : \E failStep \in {"tempfile", "rename"} :
       TreeWrite(failAt, failStep)
  \/ \E fail \in {"none", "rename"} : CommitWrite(fail)

SpecTree == InitTree /\ [][NextTree]_vars
\* The canonical name of a serialized entry: the name and "/" under mode
\* 040000, the bare name under every other mode.
CanonicalOf(se) ==
  IF parseMode(se.mode).mode = ModeTree THEN se.name \o Slash ELSE se.name

StrictlyIncreasing(payload) ==
  \A i \in 1..(Len(payload) - 1) :
    StringLess(CanonicalOf(payload[i]), CanonicalOf(payload[i + 1]))

\* C8: every tree Tree.Write serializes has its entries in strictly
\* increasing order of canonical name, the name and "/" for a directory entry
\* (mode 040000) and the bare name for every other mode, whatever Add and
\* Remove calls came before.
C8_WrittenTreesSorted ==
  /\ \A i \in 1..Len(wlog) :
       wlog[i].typ = "tree" => StrictlyIncreasing(wlog[i].payload)
  /\ \A h \in DOMAIN objects :
       objects[h].typ = "tree" => StrictlyIncreasing(objects[h].payload)
  /\ \A m \in AllModes :
       canonicalName([Mode |-> m, Name |-> NameA]) =
         IF m = ModeTree THEN NameA \o Slash ELSE NameA

\* A Write stored a tree that holds the file "a-" before the directory "a":
\* the order of the canonical names, not that of the bare names.
C8_Witness ==
  \E i \in 1..Len(wlog) :
    /\ wlog[i].typ = "tree"
    /\ wlog[i].err = "nil"
    /\ wlog[i].id \in DOMAIN objects
    /\ Len(wlog[i].payload) = 2
    /\ wlog[i].payload[1].name = NameADash
    /\ wlog[i].payload[1].mode = String(ModeFile)
    /\ wlog[i].payload[2].name = NameA
    /\ wlog[i].payload[2].mode = String(ModeTree)

\* The hash of the tree with no entries.
EmptyTreeHash == HashOf("tree", 0, <<>>)

\* Only the root is stored with no entries.
C9_NoEmptyChildWritten ==
  \A i \in 1..Len(wlog) :
    (wlog[i].typ = "tree" /\ wlog[i].err = "nil" /\ ~wlog[i].root) =>
      wlog[i].payload # <<>>

\* No stored tree points to the tree with no entries.
C9_NoEmptyChildReferenced ==
  \A i \in 1..Len(wlog) :
    (wlog[i].typ = "tree" /\ wlog[i].err = "nil") =>
      \A k \in 1..Len(wlog[i].payload) :
        wlog[i].payload[k].id # EmptyTreeHash

\* C9: after any Add and Remove calls and a Write on the root, no tree with
\* zero entries is written to the store as a child of another tree, and no
\* serialized parent points to a tree with zero entries; only the root may be
\* written empty.
C9_NoEmptyChildTrees ==
  C9_NoEmptyChildWritten /\ C9_NoEmptyChildReferenced

\* No stored tree has an entry with the all-zero hash.
C10_NoZeroHashInTrees ==
  \A i \in 1..Len(wlog) :
    (wlog[i].typ = "tree" /\ wlog[i].err = "nil") =>
      \A k \in 1..Len(wlog[i].payload) : wlog[i].payload[k].id # ZeroHash

\* No stored commit has the all-zero hash as its tree.
C10_NoZeroHashInCommits ==
  \A i \in 1..Len(wlog) :
    (wlog[i].typ = "commit" /\ wlog[i].err = "nil") =>
      wlog[i].payload[1].tree # ZeroHash

\* C10: no object Commit.Write or Tree.Write stores holds the all-zero hash
\* as a child reference: not as the tree of a commit, not as the object of a
\* tree entry.
C10_NoZeroChildHash ==
  C10_NoZeroHashInTrees /\ C10_NoZeroHashInCommits

\* The paths of the trees a tree holds, itself (the empty path) included.
RECURSIVE TreePaths(_)
TreePaths(t) ==
  {<<>>} \cup UNION {
    {<<t.Entries[i].Name>> \o p : p \in TreePaths(t.Entries[i].Object.obj)} :
      i \in {j \in 1..Len(t.Entries) : t.Entries[j].Object.obj.kind = "tree"}}

\* The tree at a path of TreePaths.
RECURSIVE TreeAt(_, _)
TreeAt(t, p) ==
  IF p = <<>> THEN t
  ELSE TreeAt(t.Entries[findEntry(t, Head(p))].Object.obj, Tail(p))

\* A tree Write has to serialize: it had an entry added or removed, or it
\* holds a blob with no hash yet, or a subtree that has to be serialized.
RECURSIVE NeedsWrite(_)
NeedsWrite(t) ==
  \/ t.dirty
  \/ \E i \in 1..Len(t.Entries) :
       LET obj == t.Entries[i].Object.obj
       IN  IF obj.kind = "tree" THEN NeedsWrite(obj) ELSE obj.id = ZeroHash

\* The last call was a Write on the root that returned nil.
WriteSucceeded ==
  \/ wlog = <<>>
  \/ /\ wlog[Len(wlog)].typ \in {"tree", "blob"}
     /\ \A i \in 1..Len(wlog) : wlog[i].err = "nil"

\* After a Write that returned nil no tree is dirty, and every tree with
\* entries has the hash of its entries as they are now, and is in the store.
C11_AllWritten ==
  WriteSucceeded =>
    \A p \in TreePaths(root) :
      LET t == TreeAt(root, p)
      IN  /\ ~t.dirty
          /\ ~NeedsWrite(t)
          /\ t.Entries # <<>> =>
               /\ t.id = HashOf("tree", Len(Serialize(t.Entries)),
                                Serialize(t.Entries))
               /\ t.id \in DOMAIN objects

\* In a Write the child is written before the parent: every tree the step
\* writes points to objects this Write has written before it, or that were
\* stored before the step, and the root comes last.
C11_BottomUp ==
  \A i \in 1..Len(wlog') :
    (wlog'[i].typ = "tree" /\ wlog'[i].err = "nil") =>
      /\ \A k \in 1..Len(wlog'[i].payload) :
           \/ wlog'[i].payload[k].id \in DOMAIN objects
           \/ \E j \in 1..(i - 1) :
                /\ wlog'[j].id = wlog'[i].payload[k].id
                /\ wlog'[j].err = "nil"
      /\ wlog'[i].root => i = Len(wlog')

\* The step is a Write on the root.
IsWriteStep ==
  /\ ops' = ops
  /\ \A i \in 1..Len(wlog') : wlog'[i].typ \in {"tree", "blob"}

\* A Write that returns nil writes the trees that have to be written, each
\* once, and leaves every other tree as it was.
C11_WritesExactlyTheDirty ==
  (IsWriteStep /\ \A i \in 1..Len(wlog') : wlog'[i].err = "nil") =>
    /\ Cardinality({i \in 1..Len(wlog') : wlog'[i].typ = "tree"}) =
         Cardinality({p \in TreePaths(root) : NeedsWrite(TreeAt(root, p))})
    /\ TreePaths(root') = TreePaths(root)
    /\ \A p \in TreePaths(root) :
         ~NeedsWrite(TreeAt(root, p)) => TreeAt(root', p) = TreeAt(root, p)

\* The names and modes of the entries of a tree, in order.
NamesAndModes(t) ==
  [i \in 1..Len(t.Entries) |-> <<t.Entries[i].Name, t.Entries[i].Mode>>]

\* The step is the Add or the Remove of a path.
IsEditStep == ops' = ops + 1

\* Add and Remove make dirty the tree they add an entry to or remove one
\* from, and the trees Add makes on the way; they leave the dirty flag of
\* every other tree as it was.  The tree Add is given is not touched.
C11_DirtyTracksEdits ==
  IsEditStep =>
    LET op == wlog'[1]
        dir == DirOf(op.payload)
    IN  \A p \in TreePaths(root') :
          LET t == TreeAt(root', p)
              isGiven == op.typ = "add" /\ p = op.payload
              existed == p \in TreePaths(root)
              edited ==
                \/ ~existed
                \/ op.typ = "add" /\ p = dir
                \/ NamesAndModes(t) # NamesAndModes(TreeAt(root, p))
          IN  IF isGiven THEN t = NewTree
              ELSE IF edited THEN t.dirty
              ELSE t.dirty = TreeAt(root, p).dirty

\* C11: Tree.Write serializes a tree exactly when the tree had an entry added
\* or removed since its last write or a descendant tree or new blob was
\* written in this walk: after a successful Write on the root every tree
\* from the root to an edited tree was rewritten, child before parent, and is
\* not dirty, and a tree with no edit in it or below it is not written and
\* keeps its hash.
C11_WriteFollowsDirty ==
  [][/\ C11_AllWritten'
     /\ C11_BottomUp
     /\ C11_WritesExactlyTheDirty
     /\ C11_DirtyTracksEdits]_vars

\* A Write returned nil after it wrote the subtree "a" and then the root.
C11_Witness ==
  /\ WriteSucceeded
  /\ Len(wlog) >= 2
  /\ wlog[Len(wlog)].typ = "tree" /\ wlog[Len(wlog)].root
  /\ wlog[Len(wlog) - 1].typ = "tree" /\ ~wlog[Len(wlog) - 1].root
  /\ wlog[Len(wlog) - 1].payload # <<>>
  /\ <<NameA>> \in TreePaths(root)
  /\ TreeAt(root, <<NameA>>).id = wlog[Len(wlog) - 1].id

\* A Write returned nil after it wrote the root and left the subtree "a",
\* which has entries and was written before, alone.
C11_WitnessUntouched ==
  /\ WriteSucceeded
  /\ Cardinality({i \in 1..Len(wlog) : wlog[i].typ = "tree"}) = 1
  /\ <<NameA>> \in TreePaths(root)
  /\ TreeAt(root, <<NameA>>).Entries # <<>>
  /\ TreeAt(root, <<NameA>>).id # ZeroHash


(***************************************************************************)
(*                 Claims on the zero-hash SparseObject                    *)
(***************************************************************************)

\* C12: a SparseObject whose hash is all zero is never resolved through the
\* store: none of its Resolve calls has called Repository.Object.
C12_ZeroHashNeverQueried ==
  \A k \in 1..Len(sparses) :
    sparses[k].id = ZeroHash => sparses[k].queries = 0


(***************************************************************************)
(*                 Specification of Repository.Resolve                     *)
(***************************************************************************)

\* Open(path) on a repository that holds StoredObjects as loose objects and
\* no pack, a valid pack, a corrupt pack or several packs.
InitResolve ==
  /\ packFiles \in {"none", "valid", "corrupt", "many"}
  /\ \/ packObjects = <<>>
     \/ /\ packFiles = "valid"
        /\ packObjects = (HashOf("blob", 1, <<7>>) :> PackEntryFor("good"))
  /\ repoPack = "nil"
  /\ objects = StoredObjects
  /\ tmpFiles = 0
  /\ refs = <<>>
  /\ blobs = <<>>
  /\ sparses = <<>>
  /\ written = {}
  /\ lastRead = NoRead
  /\ lastWrite = NoWrite
  /\ prevWrite = NoWrite
  /\ crashed = FALSE
  /\ IdleResolve
  /\ IdleIntern
  /\ IdleCodec
  /\ IdlePackRead /\ IdleParse /\ IdleFind
  /\ IdleIndex
  /\ IdlePack
  /\ IdleTree

NextResolve ==
  \/ \E o \in ShellInputs : NewShell(o)
  \/ \E id \in DOMAIN StoredObjects \cup {MissingHash} :
       \E io \in IOFails : RepoObject(id, io)
  \/ \E ptr \in 1..Len(shells) : \E io \in IOFails : ShellResolve(ptr, io)
  \/ \E ptr \in 1..Len(shells) : \E fail \in FailSteps \cup {"ref"} :
       TagWrite(ptr, fail)
  \/ \E name \in RefNames : \E id \in RefIds : \E fail \in {"none", "ref"} :
       RefWrite(name, id, fail)

SpecResolve == InitResolve /\ [][NextResolve]_vars

\* The object of the last Resolve was resolved before the call: a Parse had
\* filled it from the store, or it holds data or entries.
AlreadyResolved ==
  lastResolve.wasParsed \/ objResolved(lastResolve.before)

\* C13: Repository.Resolve(obj) asks the store nothing, leaves obj as it was
\* and returns nil when obj is already resolved or its hash is zero;
\* otherwise it looks up obj's hash and parses the payload into obj itself,
\* no new object is made.
C13_ResolveFrame ==
  lastResolve.ptr # 0 =>
    LET ptr == lastResolve.ptr
        before == lastResolve.before
    IN  /\ Len(shells) = lastResolve.held
        /\ IF AlreadyResolved \/ before.id = ZeroHash
           THEN /\ ~lastResolve.asked
                /\ shells[ptr] = before
                /\ lastResolve.err = "nil"
           ELSE /\ lastResolve.asked
                /\ lastResolve.err = "nil" =>
                     /\ before.id \in DOMAIN objects
                     /\ shells[ptr] = Parse(before, objects[before.id].payload).obj
                /\ lastResolve.err \notin {"nil", "octal"} => shells[ptr] = before

\* The same, with "already resolved" read as what obj.Resolved() answers.
C13_ResolveFrameByResolved ==
  lastResolve.ptr # 0 =>
    LET ptr == lastResolve.ptr
        before == lastResolve.before
    IN  /\ Len(shells) = lastResolve.held
        /\ IF objResolved(before) \/ before.id = ZeroHash
           THEN /\ ~lastResolve.asked
                /\ shells[ptr] = before
                /\ lastResolve.err = "nil"
           ELSE /\ lastResolve.asked
                /\ lastResolve.err = "nil" =>
                     /\ before.id \in DOMAIN objects
                     /\ shells[ptr] = Parse(before, objects[before.id].payload).obj
                /\ lastResolve.err \notin {"nil", "octal"} => shells[ptr] = before


(***************************************************************************)
(*                     Claims on the corrupt pack                          *)
(***************************************************************************)

\* C14: a corrupt pack is disabled for the rest of the process: when a
\* Repository.Object call has failed on opening or verifying the pack, the
\* next Repository.Object call does not open the pack again.
C14_CorruptPackDisabled ==
  [][(/\ lastRead.packErr = "checksum"
      /\ lastRead'.err # "none")
     => ~lastRead'.opened]_vars


\* C23: when Repository.Resolve(obj) returns an error, obj is as it was
\* before the call: not resolved and with no field filled in part; of a
\* tree, no entry parsed before the malformed one stays in Entries.
C23_FailedResolveLeavesObject ==
  (lastResolve.ptr # 0 /\ lastResolve.err # "nil") =>
    /\ shells[lastResolve.ptr] = lastResolve.before
    /\ ~objResolved(shells[lastResolve.ptr])

\* C24: after Repository.Resolve(obj) returned nil for an object whose hash
\* is not zero, obj.Resolved() is true, so that the next Resolve reads
\* nothing: for a blob, for a blob with an empty payload, for a tree and for
\* the tree with no entries.
C24_ResolvedAfterResolve ==
  (/\ lastResolve.ptr # 0
   /\ lastResolve.err = "nil"
   /\ lastResolve.before.id # ZeroHash) =>
    objResolved(shells[lastResolve.ptr])

(***************************************************************************)
(*                Specification of the tree entry cache                    *)
(***************************************************************************)

InitIntern ==
  /\ IdleIntern /\ IdleStore /\ IdleIndex /\ IdlePack /\ IdleTree
  /\ IdleResolve /\ IdleCodec /\ IdlePackRead /\ IdleParse /\ IdleFind

NextIntern ==
  \/ \E k \in TreeIds : ParseTree(k)
  \/ \E k \in TreeIds : \E name \in {NameA, NameADash} :
       TreeAddEntry(k, name, HashOf("blob", 0, <<>>), ModeFileEx)
  \/ \E k \in TreeIds : \E path \in Paths : InternAdd(k, path, ModeFile)
  \/ \E k \in TreeIds : \E path \in Paths : InternRemove(k, path)
  \/ \E k \in TreeIds : \E i \in 1..2 : EntryResolve(k, i)

SpecIntern == InitIntern /\ [][NextIntern]_vars

\* What tree k shows of its entries: for each, the mode, the name, the hash
\* and the object its SparseObject holds.
EntriesSeen(k) ==
  [i \in 1..Len(itrees[k].Entries) |-> entryHeap[itrees[k].Entries[i]]]

\* C15: the entries the cache hands out do not change: a tree parsed from
\* the bytes, through which no call was made, shows the modes, names and
\* hashes of the bytes and no resolved object, whatever was done through the
\* other tree parsed from the same bytes.
C15_CachedEntriesImmutable ==
  \A k \in TreeIds :
    (itrees[k].kind = "tree" /\ k \notin touched) =>
      EntriesSeen(k) = [i \in 1..Len(RootRows) |-> EntryOfRow(RootRows[i])]


(***************************************************************************)
(*               Claims on the temporary file of a write                   *)
(***************************************************************************)

\* C16: when a write fails after its temporary file was created, removing
\* that file is the last thing the call does, nothing was renamed, the
\* loose store is as it was and no temporary file is left; when it
\* succeeds, the rename is the last thing it does, the object is in the
\* loose store and no temporary file is left.
C16_TempFileRemoved ==
  (lastWrite.op = "write" /\ EventAt(lastWrite.events, "create") # 0) =>
    LET ev == lastWrite.events
    IN  /\ tmpFiles = 0
        /\ IF lastWrite.err # "nil"
           THEN /\ ev[Len(ev)] = "remove"
                /\ EventAt(ev, "rename") = 0
                /\ ~lastWrite.changed
           ELSE /\ ev[Len(ev)] = "rename"
                /\ EventAt(ev, "remove") = 0
                /\ lastWrite.id \in DOMAIN objects

\* A write failed at the rename, after the file was written and closed and
\* the directory made, and removed its temporary file.
C16_Witness ==
  /\ lastWrite.op = "write"
  /\ lastWrite.err = "rename"
  /\ EventAt(lastWrite.events, "mkdir") # 0
  /\ lastWrite.events[Len(lastWrite.events)] = "remove"
  /\ tmpFiles = 0

\* A write failed while the header was written and removed its file.
C16_WitnessHeader ==
  /\ lastWrite.op = "write"
  /\ lastWrite.err = "write"
  /\ EventAt(lastWrite.events, "header") = 0
  /\ EventAt(lastWrite.events, "create") # 0
  /\ lastWrite.events[Len(lastWrite.events)] = "remove"


(***************************************************************************)
(*                  Specification of the conversions                       *)
(***************************************************************************)

InitCodec ==
  /\ input \in ModeInputs \cup HexInputs
  /\ output = NoOutput
  /\ IdleIndex /\ IdlePack /\ IdleStore /\ IdleTree /\ IdleResolve
  /\ IdleIntern /\ IdlePackRead /\ IdleParse /\ IdleFind

NextCodec ==
  \/ CallParseMode
  \/ CallNewSHA1
  \/ CallSHA1FromHex
  \/ CallSHA1FromHexString

SpecCodec == InitCodec /\ [][NextCodec]_vars

\* Every byte of s is a hex digit.
AllHex(s) ==
  \A i \in 1..Len(s) :
    \/ s[i] \in 48..57
    \/ s[i] \in 97..102
    \/ s[i] \in 65..70

\* C17: a hash is made from hex only of exactly 40 hex digits: NewSHA1
\* returns an error for every string with another byte in it, and for every
\* shorter and every longer string.
C17_HexOfWrongLengthFails ==
  (output.op = "NewSHA1" /\ ~(Len(input) = 2 * SHA1Len /\ AllHex(input)))
    => output.err # "nil"

\* Every byte of s is one of '0'..'7'.
AllOctal(s) == \A i \in 1..Len(s) : s[i] \in 48..55

\* The number the octal digits of s write.
RECURSIVE OctalValue(_)
OctalValue(s) ==
  IF s = <<>> THEN 0
  ELSE 8 * OctalValue(SubSeq(s, 1, Len(s) - 1)) + (s[Len(s)] - 48)

\* C18: parseMode of 1 to MaxDigits octal digits with no leading zero gives
\* the number they write, and String of that number gives the digits back;
\* parseMode of a string with a byte outside '0'..'7' is an error.
C18_ModeRoundTrip ==
  output.op = "parseMode" =>
    /\ (AllOctal(input) /\ Len(input) \in 1..MaxDigits /\ input[1] # 48) =>
         /\ output.err = "nil"
         /\ output.mode = OctalValue(input)
         /\ output.str = input
    /\ ~AllOctal(input) => output.err # "nil"

\* "100644" was parsed to 0100644 and printed as "100644".
C18_Witness ==
  /\ output.op = "parseMode"
  /\ input = <<49, 48, 48, 54, 52, 52>>
  /\ output.mode = ModeFile
  /\ output.str = input

\* "8" was refused.
C18_WitnessError ==
  /\ output.op = "parseMode"
  /\ input = <<56>>
  /\ output.err # "nil"


(***************************************************************************)
(*                   Specification of the pack reader                      *)
(***************************************************************************)

\* OpenPack has verified the pack: the reader stands after the checksum.
InitPackRead ==
  /\ rpos = PackFileLen
  /\ pents = [e \in PackEntries |-> NoPackEntry]
  /\ lastReadAll = NoReadAll
  /\ IdleIndex /\ IdlePack /\ IdleStore /\ IdleTree /\ IdleResolve
  /\ IdleIntern /\ IdleCodec /\ IdleParse /\ IdleFind

NextPackRead ==
  \/ \E e \in PackEntries : PackEntryAt(e)
  \/ \E e \in PackEntries : PackReadAll(e)

SpecPackRead == InitPackRead /\ [][NextPackRead]_vars

\* C19: the first ReadAll of a base entry starts to decompress at
\* offset + headerLen wherever the shared reader stood, and a ReadAll of an
\* entry that has its buffer returns it without a zlib reader.
C19_ReadAllStartsAtPayload ==
  lastReadAll.e # 0 =>
    IF lastReadAll.hadBuf
    THEN ~lastReadAll.zlib /\ lastReadAll.err = "nil"
    ELSE /\ lastReadAll.zlib
         /\ lastReadAll.start = PayloadStart(lastReadAll.e)


(***************************************************************************)
(*                Claims on the consumers of pack entries                  *)
(***************************************************************************)

\* C20: every consumer that was handed an entry releases it exactly once on
\* every return path: the step by which a caller that holds an entry leaves
\* it, to return or to close the buffer first, takes one from the entry's
\* use count, which undoes the one user the caller was counted as when it
\* got the entry.
C20_ConsumersReleaseOnce ==
  [][\A c \in Callers :
       (callerPc[c] = "holding" /\ callerPc'[c] \in {"idle", "closing"}) =>
         entUsed'[callerEntry[c]] = entUsed[callerEntry[c]] - 1]_vars


(***************************************************************************)
(*                        Payloads as bytes                                *)
(*                                                                         *)
(* Tree.Parse and Commit.Parse read the payload of an object byte by byte. *)
(* A payload is a string of bytes; positions are counted from 0 as in the  *)
(* code.  A slice expression whose bounds leave the slice is a run-time    *)
(* panic: the call returns nothing and the program stops.                  *)
(***************************************************************************)

\* How many entries the tree payloads of the model have at most.
MaxRows == 2

\* The bytes of a hash in a tree payload: rest[pos+1 : pos+21].
HashLen == 20

\* bytes.IndexByte(s, c): the first place of c in s, -1 when there is none.
IndexByte(s, c) ==
  IF \E i \in 1..Len(s) : s[i] = c
  THEN (CHOOSE i \in 1..Len(s) :
          /\ s[i] = c
          /\ \A j \in 1..(i - 1) : s[j] # c) - 1
  ELSE -1

\* s[lo:hi] and s[lo:], for bounds inside s.
Slice(s, lo, hi) == SubSeq(s, lo + 1, hi)
SliceFrom(s, lo) == SubSeq(s, lo + 1, Len(s))

\* newTreeEntry(mode, name, id, repo): the error of parseMode, or the entry.
newTreeEntryBytes(mode, name, id) ==
  LET m == CHOOSE r \in {parseMode(mode)} : TRUE
  IN  IF m.err # "nil" THEN [entry |-> <<>>, err |-> m.err]
      ELSE [entry |-> <<[Mode |-> m.mode, Name |-> name, id |-> id]>>,
            err |-> "nil"]

\* Tree.Parse(data) on a tree whose Entries are entries: entry after entry
\* is cut off the payload and appended, until the payload is empty.  What
\* was appended before an error stays in Entries.
RECURSIVE TreeParseBytes(_, _)
TreeParseBytes(data, entries) ==
  IF Len(data) = 0 THEN [Entries |-> entries, err |-> "nil"]
  ELSE LET pos == IndexByte(data, 32)
       IN  IF pos = -1 THEN [Entries |-> entries, err |-> "unknownformat"]
           ELSE LET mode == Slice(data, 0, pos)
                    rest == SliceFrom(data, pos + 1)
                    pos2 == IndexByte(rest, 0)
                IN  IF pos2 = -1
                    THEN [Entries |-> entries, err |-> "unknownformat"]
                    ELSE IF pos2 + 1 + HashLen > Len(rest)
                    THEN [Entries |-> entries, err |-> "panic"]
                    ELSE LET e == newTreeEntryBytes(
                                    mode, Slice(rest, 0, pos2),
                                    Slice(rest, pos2 + 1, pos2 + 1 + HashLen))
                         IN  IF e.err # "nil"
                             THEN [Entries |-> entries, err |-> e.err]
                             ELSE TreeParseBytes(
                                    SliceFrom(rest, pos2 + 1 + HashLen),
                                    [nil |-> FALSE,
                                     list |-> entries.list \o e.entry])

\* Two hashes as bytes: one of plain bytes, one with a space and a NUL in it.
HashA == [i \in 1..HashLen |-> 1]
HashB == [i \in 1..HashLen |-> IF i = 3 THEN 32 ELSE IF i = 5 THEN 0 ELSE 2]

\* "<mode> <name>\0<hash>"
RowBytes(mode, name, hash) == mode \o <<32>> \o name \o <<0>> \o hash

\* The entries tree payloads are made of: the modes "100644", "40000" and
\* "", the name "a", the two hashes.
RowInputs ==
  {RowBytes(mode, NameA, hash) :
     mode \in {String(ModeFile), String(ModeTree), <<>>},
     hash \in {HashA, HashB}}

\* Up to n entries, one after the other.
RECURSIVE RowsUpTo(_)
RowsUpTo(n) ==
  IF n = 0 THEN {<<>>}
  ELSE LET shorter == RowsUpTo(n - 1)
       IN  shorter \cup {p \o r : p \in shorter, r \in RowInputs}

\* A payload cut after k bytes, without its k-th byte, and with '8' as its
\* k-th byte.
Truncated(p, k) == SubSeq(p, 1, k)
WithoutByte(p, k) == SubSeq(p, 1, k - 1) \o SubSeq(p, k + 1, Len(p))
WithByte(p, k, c) == [p EXCEPT ![k] = c]

\* The payloads Tree.Parse is called with: tree payloads, whole and damaged
\* at one place.
TreePayloads ==
  LET whole == RowsUpTo(MaxRows)
  IN  whole
      \cup UNION {{Truncated(p, k) : k \in 0..Len(p)} : p \in whole}
      \cup UNION {{WithoutByte(p, k) : k \in 1..Len(p)} : p \in whole}
      \cup UNION {{WithByte(p, k, 56) : k \in 1..Len(p)} : p \in whole}

\* err := repo.NewTree().Parse(pdata)
CallTreeParse ==
  /\ pout = NoParse
  /\ pdata \in TreePayloads
  /\ \E r \in {TreeParseBytes(pdata, NilEntries)} :
       pout' = [op |-> "TreeParse", err |-> r.err, obj |-> r.Entries]
  /\ UNCHANGED <<pdata, notParseVars>>

\* How many parent lines the commit payloads of the model have at most.
MaxParents == 1

\* "tree ", "parent ", "author ", "committer " and, a header Commit.Parse
\* does not know, "gpgsig ".
TreeKey == <<116, 114, 101, 101, 32>>
ParentKey == <<112, 97, 114, 101, 110, 116, 32>>
AuthorKey == <<97, 117, 116, 104, 111, 114, 32>>
CommitterKey == <<99, 111, 109, 109, 105, 116, 116, 101, 114, 32>>
GpgsigKey == <<103, 112, 103, 115, 105, 103, 32>>

\* bytes.HasPrefix(data, prefix)
HasPrefix(data, prefix) ==
  /\ Len(data) >= Len(prefix)
  /\ SubSeq(data, 1, Len(prefix)) = prefix

\* readKV(data, prefix): the value between the prefix and the first LF, and
\* what follows the LF.
readKV(data, prefix) ==
  IF ~HasPrefix(data, prefix)
  THEN [value |-> <<>>, data |-> data, err |-> "prefixnotmatch"]
  ELSE LET pos == IndexByte(data, 10)
       IN  IF pos = -1
           THEN [value |-> <<>>, data |-> data, err |-> "unknownformat"]
           ELSE [value |-> Slice(data, Len(prefix), pos),
                 data |-> SliceFrom(data, pos + 1), err |-> "nil"]

\* strconv.ParseInt(s, 10, 64), for the short strings of the model: an
\* optional sign and at least one digit.
ParseIntOk(str) ==
  LET digits == IF Len(str) > 0 /\ str[1] \in {43, 45} THEN Tail(str) ELSE str
  IN  /\ Len(digits) > 0
      /\ \A i \in 1..Len(digits) : digits[i] \in 48..57

\* time.Parse("-0700", s): a sign, two digits of hours, two of minutes.
\* Whether the two numbers are held to a range depends on the time package
\* the program is built with: the newer ones refuse hours above 24 and
\* minutes above 60, the older ones take every four digits.  ranged says
\* which of the two the build has.
TimeParseOk(str, ranged) ==
  /\ Len(str) = 5
  /\ str[1] \in {43, 45}
  /\ \A i \in 2..5 : str[i] \in 48..57
  /\ ranged => /\ (str[2] - 48) * 10 + (str[3] - 48) <= 24
               /\ (str[4] - 48) * 10 + (str[5] - 48) <= 60

\* newUser(data): "<name> <<email>> <seconds> <zone>".
newUser(data, ranged) ==
  LET pos == IndexByte(data, 60)
      rest == SliceFrom(data, pos + 1)
      pos2 == IndexByte(rest, 62)
      rest2 == SliceFrom(rest, pos2 + 2)
      pos3 == IndexByte(rest2, 32)
  IN  IF pos = -1 THEN [user |-> <<>>, err |-> "unknownformat"]
      ELSE IF pos = 0 THEN [user |-> <<>>, err |-> "panic"]
      ELSE IF pos2 = -1 THEN [user |-> <<>>, err |-> "unknownformat"]
      ELSE IF pos2 + 2 > Len(rest) THEN [user |-> <<>>, err |-> "panic"]
      ELSE IF pos3 = -1 THEN [user |-> <<>>, err |-> "unknownformat"]
      ELSE IF ~ParseIntOk(Slice(rest2, 0, pos3))
      THEN [user |-> <<>>, err |-> "parseint"]
      ELSE IF ~TimeParseOk(SliceFrom(rest2, pos3 + 1), ranged)
      THEN [user |-> <<>>, err |-> "timeparse"]
      ELSE [user |-> <<[Name |-> Slice(data, 0, pos - 1),
                        Email |-> Slice(rest, 0, pos2),
                        sec |-> Slice(rest2, 0, pos3),
                        zone |-> SliceFrom(rest2, pos3 + 1)]>>,
            err |-> "nil"]

\* newCommit(id, repo): no field is set.
NilCommit ==
  [Tree |-> <<>>, Parents |-> <<>>, Author |-> <<>>, Committer |-> <<>>,
   Data |-> NilBytes]

\* The loop of Commit.Parse over the parent lines: it ends at the first
\* line that does not start with "parent ".
RECURSIVE readParents(_, _)
readParents(data, parents) ==
  LET kv == readKV(data, ParentKey)
      id == CHOOSE r \in {SHA1FromHex(kv.value)} : TRUE
  IN  IF kv.err = "prefixnotmatch"
      THEN [parents |-> parents, data |-> data, err |-> "nil"]
      ELSE IF kv.err # "nil"
      THEN [parents |-> parents, data |-> data, err |-> kv.err]
      ELSE IF id.err # "nil"
      THEN [parents |-> parents, data |-> data, err |-> "panic"]
      ELSE readParents(kv.data, Append(parents, id.sha))

\* Commit.Parse(data) on a new Commit: Tree, Parents, Author and Committer
\* are set when every line was read, then Data is set to data[1:] of what
\* follows the committer line; with nothing there the slice expression panics
\* and leaves the four fields set and Data nil.
CommitParse(data, ranged) ==
  LET fail(e) == [obj |-> NilCommit, err |-> e]
      t == readKV(data, TreeKey)
      tid == CHOOSE r \in {SHA1FromHex(t.value)} : TRUE
      ps == CHOOSE r \in {readParents(t.data, <<>>)} : TRUE
      a == readKV(ps.data, AuthorKey)
      author == newUser(a.value, ranged)
      c == readKV(a.data, CommitterKey)
      committer == newUser(c.value, ranged)
  IN  IF t.err # "nil" THEN fail(t.err)
      ELSE IF tid.err # "nil" THEN fail("panic")
      ELSE IF ps.err # "nil" THEN fail(ps.err)
      ELSE IF a.err # "nil" THEN fail(a.err)
      ELSE IF author.err # "nil" THEN fail(author.err)
      ELSE IF c.err # "nil" THEN fail(c.err)
      ELSE IF committer.err # "nil" THEN fail(committer.err)
      ELSE IF Len(c.data) < 1
      THEN [obj |-> [NilCommit EXCEPT !.Tree = <<tid.sha>>,
                                      !.Parents = ps.parents,
                                      !.Author = author.user,
                                      !.Committer = committer.user],
            err |-> "panic"]
      ELSE [obj |-> [Tree |-> <<tid.sha>>, Parents |-> ps.parents,
                     Author |-> author.user, Committer |-> committer.user,
                     Data |-> Bytes(SliceFrom(c.data, 1))],
            err |-> "nil"]

\* The lines commit payloads are made of.
HexOf(c) == [i \in 1..(2 * SHA1Len) |-> c]
UserLine == <<65, 32, 60, 97, 62, 32, 49, 32, 43, 48, 48, 48, 48>>
TreeLine == TreeKey \o HexOf(97) \o <<10>>
ParentLine == ParentKey \o HexOf(98) \o <<10>>
AuthorLine == AuthorKey \o UserLine \o <<10>>
CommitterLine == CommitterKey \o UserLine \o <<10>>
GpgsigLine == GpgsigKey \o <<115>> \o <<10>>

\* An author line whose zone is "+2500".
FarZoneLine ==
  AuthorKey \o <<65, 32, 60, 97, 62, 32, 49, 32, 43, 50, 53, 48, 48>> \o <<10>>

\* n parent lines.
RECURSIVE ParentLines(_)
ParentLines(n) == IF n = 0 THEN <<>> ELSE ParentLine \o ParentLines(n - 1)

\* The payloads Commit.Parse is called with: each of the tree, author and
\* committer lines is there or not, author and committer in this order or
\* the other; after them comes nothing, a header line or a parent line; then
\* the blank line or not; then a message or not.  One more payload has all
\* its lines, with an author whose zone is 25 hours off.
CommitPayloads ==
  {TreeLine \o FarZoneLine \o CommitterLine \o <<10, 109>>} \cup
  {tree \o ParentLines(n) \o (IF swap THEN committer \o author
                                        ELSE author \o committer)
        \o extra \o blank \o msg :
     tree \in {<<>>, TreeLine}, n \in 0..MaxParents,
     author \in {<<>>, AuthorLine}, committer \in {<<>>, CommitterLine},
     swap \in BOOLEAN, extra \in {<<>>, GpgsigLine, ParentLine},
     blank \in {<<>>, <<10>>}, msg \in {<<>>, <<109>>, <<109, 10>>}}

\* err := newCommit(id, repo).Parse(pdata), in a build whose time package
\* checks the range of a zone or not.
CallCommitParse(ranged) ==
  /\ pout = NoParse
  /\ pdata \in CommitPayloads
  /\ \E r \in {CommitParse(pdata, ranged)} :
       pout' = [op |-> "CommitParse", err |-> r.err, obj |-> r.obj]
  /\ UNCHANGED <<pdata, notParseVars>>

(***************************************************************************)
(*                   Specification of the parsers                          *)
(***************************************************************************)

InitParse ==
  /\ pdata \in TreePayloads \cup CommitPayloads
  /\ pout = NoParse
  /\ IdleIndex /\ IdlePack /\ IdleStore /\ IdleTree /\ IdleResolve
  /\ IdleIntern /\ IdleCodec /\ IdlePackRead /\ IdleFind

NextParse ==
  \/ CallTreeParse
  \/ \E ranged \in BOOLEAN : CallCommitParse(ranged)

SpecParse == InitParse /\ [][NextParse]_vars

\* The first entry of a tree payload is as the format has it: a mode of at
\* least one byte, all octal digits, a space, a name, a NUL, HashLen bytes.
FirstEntryOk(data) ==
  LET pos == IndexByte(data, 32)
      rest == SliceFrom(data, pos + 1)
      pos2 == IndexByte(rest, 0)
  IN  /\ pos >= 1
      /\ \A i \in 1..pos : data[i] \in 48..55
      /\ pos2 >= 0
      /\ Len(rest) >= pos2 + 1 + HashLen

\* What follows the first entry of a payload whose first entry is as the
\* format has it.
AfterFirstEntry(data) ==
  LET rest == SliceFrom(data, IndexByte(data, 32) + 1)
  IN  SliceFrom(rest, IndexByte(rest, 0) + 1 + HashLen)

\* Every entry of a tree payload is as the format has it.
RECURSIVE WellFormedTree(_)
WellFormedTree(data) ==
  \/ Len(data) = 0
  \/ /\ FirstEntryOk(data)
     /\ WellFormedTree(AfterFirstEntry(data))

\* C21: Tree.Parse returns an error, and does not stop the program, for
\* every malformed tree payload: one with no space after a mode, no NUL
\* after a name, a mode digit that is not octal, an empty mode, or fewer
\* than 20 bytes after the NUL.
C21_MalformedTreeIsAnError ==
  (pout.op = "TreeParse" /\ ~WellFormedTree(pdata)) =>
    pout.err \notin {"nil", "panic"}


\* data without its first line, the LF included.
AfterLine(data) == SliceFrom(data, IndexByte(data, 10) + 1)

\* data starts with a line of that key.
LineOf(data, key) == HasPrefix(data, key) /\ IndexByte(data, 10) >= 0

\* data without the parent lines it starts with.
RECURSIVE AfterParents(_)
AfterParents(data) ==
  IF LineOf(data, ParentKey) THEN AfterParents(AfterLine(data)) ELSE data

\* What follows the committer line of a payload whose lines are a tree line,
\* parent lines, an author line and a committer line, in this order.
AfterHeaders(data) == AfterLine(AfterLine(AfterParents(AfterLine(data))))

\* The lines of a commit payload are, in this order, a tree line, parent
\* lines, an author line, a committer line and a blank line.
WellFormedCommit(data) ==
  /\ LineOf(data, TreeKey)
  /\ LineOf(AfterParents(AfterLine(data)), AuthorKey)
  /\ LineOf(AfterLine(AfterParents(AfterLine(data))), CommitterKey)
  /\ Len(AfterHeaders(data)) >= 1
  /\ AfterHeaders(data)[1] = 10

\* C22: Commit.Parse accepts a payload only if it is a tree line, parent
\* lines, an author line, a committer line and a blank line, in this order,
\* and the message it takes is exactly the bytes after the blank line; a
\* payload whose committer line is followed by something else than an LF is
\* refused with an error, and none of its bytes is dropped.
C22_CommitLinesInOrder ==
  pout.op = "CommitParse" =>
    /\ pout.err = "nil" =>
         /\ WellFormedCommit(pdata)
         /\ pout.obj.Data = Bytes(SliceFrom(AfterHeaders(pdata), 1))
    /\ ~WellFormedCommit(pdata) => pout.err \notin {"nil", "panic"}


(***************************************************************************)
(*                             Tree.Find                                   *)
(*                                                                         *)
(* The repository holds a root tree, a subtree and a blob, by the bytes of *)
(* their hashes.  The program holds the root Tree: not resolved, or with   *)
(* its entries parsed, each entry with its object resolved or not.         *)
(***************************************************************************)

\* The hashes of the blob, of the subtree and of the root.
IdBlob == HashA
IdSub == HashB
IdRoot == [i \in 1..HashLen |-> 4]

NameB == <<98>>

\* The payload of the subtree: the files "a" and "a-".
SubPayload ==
  RowBytes(String(ModeFile), NameA, IdBlob)
  \o RowBytes(String(ModeFile), NameADash, IdBlob)

\* The entries the root is made of: a mode as Tree.write prints ModeFile,
\* ModeTree and 0644, over the names "a" and "a-", for the blob or the
\* subtree.
FindRowInputs ==
  {RowBytes(mode, name, id) :
     mode \in {String(ModeFile), String(ModeTree), String(420)},
     name \in {NameA, NameADash}, id \in {IdBlob, IdSub}}

\* Up to n of them, one after the other.
RECURSIVE FindRowsUpTo(_)
FindRowsUpTo(n) ==
  IF n = 0 THEN {<<>>}
  ELSE LET shorter == FindRowsUpTo(n - 1)
       IN  shorter \cup {p \o r : p \in shorter, r \in FindRowInputs}

\* The loose objects of the repository whose root has that payload.
FindStore(rootPayload) ==
  (IdRoot :> LooseOf("tree", rootPayload))
  @@ (IdSub :> LooseOf("tree", SubPayload))
  @@ (IdBlob :> LooseOf("blob", <<7>>))

\* The paths Find is called with, after splitPath.
FindPaths ==
  {<<NameA>>, <<NameADash>>, <<NameB>>, <<NameA, NameA>>,
   <<NameA, NameADash>>, <<NameADash, NameA>>, <<NameA, NameA, NameA>>}

\* What Find returns: the hash and the mode of the entry, or an error.
Found(id, mode) == [id |-> id, mode |-> mode, err |-> "nil"]
NotFound(err) == [id |-> <<>>, mode |-> 0, err |-> err]

\* A Tree of the program: newTree(id, repo) has Entries nil; Parse gives
\* every entry a SparseObject of the entry's hash with no object.
findNewTree(id) == [kind |-> "tree", id |-> id, Entries |-> NilEntries]

sparseEntry(e) ==
  [Mode |-> e.Mode, Name |-> e.Name, Object |-> [id |-> e.id, obj |-> <<>>]]

\* Repository.Object(id): a new object of the entry's type, parsed.
findObject(id, objs) ==
  LET e == looseEntry(objs, id)
      r == CHOOSE x \in {TreeParseBytes(e.payload, NilEntries)} : TRUE
  IN  IF e.err # "nil" THEN [obj |-> <<>>, err |-> e.err]
      ELSE IF e.typ # "tree"
      THEN [obj |-> <<[kind |-> "blob", id |-> id]>>, err |-> "nil"]
      ELSE [obj |-> <<[kind |-> "tree", id |-> id,
                       Entries |-> [nil |-> r.Entries.nil,
                                    list |-> [i \in 1..Len(r.Entries.list) |->
                                                sparseEntry(r.Entries.list[i])]]]>>,
            err |-> r.err]

\* The bytes that lie between the length and the capacity of the slice
\* ReadAll returned: none (the capacity is the length), or HashLen bytes of
\* the buffer behind the payload.
Spares == {<<>>, [i \in 1..HashLen |-> 0]}

\* findTreeEntryBytes(data, name): the entries of the payload are passed
\* one by one; the mode ends at data[5] or data[6]; the entry is the one
\* looked for when name and a NUL follow the mode.  The hash is
\* data[n : n+20], a slice expression that may reach up to the capacity of
\* data: spare is what lies there, behind the length.  data[i+21:] may
\* reach up to the length only.
RECURSIVE findTreeEntryBytes(_, _, _)
findTreeEntryBytes(data, name, spare) ==
  IF Len(data) = 0 THEN NotFound("notfound")
  ELSE IF Len(data) < 6 THEN NotFound("panic")
  ELSE IF data[6] # 32 /\ Len(data) < 7 THEN NotFound("panic")
  ELSE IF data[6] # 32 /\ data[7] # 32 THEN NotFound("unknownformat")
  ELSE LET i == IF data[6] = 32 THEN 5 ELSE 6
           m == CHOOSE r \in {parseMode(Slice(data, 0, i))} : TRUE
           rest == SliceFrom(data, i + 1)
           term == name \o <<0>>
           n == Len(term)
           nul == IndexByte(rest, 0)
       IN  IF m.err # "nil" THEN NotFound(m.err)
           ELSE IF Len(rest) < n THEN NotFound("notfound")
           ELSE IF rest[n] = 0 /\ Slice(rest, 0, n) = term
           THEN IF n + HashLen > Len(rest) + Len(spare) THEN NotFound("panic")
                ELSE Found(Slice(rest \o spare, n, n + HashLen), m.mode)
           ELSE IF nul < 0 THEN NotFound("unknownformat")
           ELSE IF nul + 1 + HashLen > Len(rest) THEN NotFound("panic")
           ELSE findTreeEntryBytes(SliceFrom(rest, nul + 1 + HashLen), name,
                                   spare)

\* Tree.fastFind(parts) on the tree of that id: for every part the object of
\* the id so far is read, it has to be a tree that the mode said is a tree,
\* and the part is looked for in its bytes.
RECURSIVE fastFindFrom(_, _, _, _, _)
fastFindFrom(id, mode, parts, objs, spare) ==
  IF parts = <<>> THEN Found(id, mode)
  ELSE IF mode # ModeTree THEN NotFound("notfound")
  ELSE LET e == looseEntry(objs, id)
           f == CHOOSE r \in {findTreeEntryBytes(e.payload, Head(parts),
                                                 spare)} : TRUE
       IN  IF e.err # "nil" THEN NotFound(e.err)
           ELSE IF e.typ # "tree" THEN NotFound("notfound")
           ELSE IF f.err # "nil" THEN NotFound(f.err)
           ELSE fastFindFrom(f.id, f.mode, Tail(parts), objs, spare)

fastFind(id, parts, objs, spare) ==
  fastFindFrom(id, ModeTree, parts, objs, spare)

\* Tree.Find(path): the parsed entries are walked while the tree at hand is
\* resolved; an entry on the way whose object is not there is a new Tree of
\* that hash, an object that is no tree ends the walk; from the first tree
\* that is not resolved on, fastFind looks in the bytes.
RECURSIVE Find(_, _, _, _)
Find(t, parts, objs, spare) ==
  IF ~objResolved(t) THEN fastFind(t.id, parts, objs, spare)
  ELSE LET i == findEntry([Entries |-> t.Entries.list], Head(parts))
           entry == t.Entries.list[i]
       IN  IF i = 0 THEN NotFound("notfound")
           ELSE IF Len(parts) = 1
           THEN Found(IF entry.Object.obj # <<>> THEN entry.Object.obj[1].id
                      ELSE entry.Object.id, entry.Mode)
           ELSE IF entry.Object.obj = <<>>
           THEN fastFind(entry.Object.id, Tail(parts), objs, spare)
           ELSE IF entry.Object.obj[1].kind # "tree"
           THEN NotFound("notfound")
           ELSE Find(entry.Object.obj[1], Tail(parts), objs, spare)

\* root.Resolve(): the root is read and parsed when it is not resolved.
FindResolveRoot ==
  /\ ~objResolved(ftree)
  /\ \E r \in {findObject(ftree.id, fstore)} :
       /\ r.err = "nil"
       /\ ftree' = r.obj[1]
  /\ lastFind' = NoFind
  /\ UNCHANGED <<fstore, notFindVars>>

\* root.Entries[i].Object.Resolve(): the object of the entry is read when
\* the entry has none.
FindResolveEntry(i) ==
  /\ i \in 1..Len(ftree.Entries.list)
  /\ ftree.Entries.list[i].Object.obj = <<>>
  /\ \E r \in {findObject(ftree.Entries.list[i].Object.id, fstore)} :
       /\ r.err = "nil"
       /\ ftree' = [ftree EXCEPT !.Entries.list[i].Object.obj = r.obj]
  /\ lastFind' = NoFind
  /\ UNCHANGED <<fstore, notFindVars>>

\* root.Find(path), with spare behind every payload fastFind reads.
CallFind(path, spare) ==
  /\ \E r \in {Find(ftree, path, fstore, spare)} :
       lastFind' = [op |-> "Find", path |-> path, spare |-> spare,
                    id |-> r.id, mode |-> r.mode, err |-> r.err]
  /\ UNCHANGED <<fstore, ftree, notFindVars>>

(***************************************************************************)
(*                     Specification of Tree.Find                          *)
(***************************************************************************)

\* A root whose one entry lost the last byte of its hash.
FindCutRoots ==
  {Truncated(r, Len(r) - 1) : r \in {RowBytes(String(ModeFile), NameA, IdBlob)}}

InitFind ==
  /\ \E rootPayload \in FindRowsUpTo(MaxRows) \cup FindCutRoots :
       fstore = FindStore(rootPayload)
  /\ ftree = findNewTree(IdRoot)
  /\ lastFind = NoFind
  /\ IdleIndex /\ IdlePack /\ IdleStore /\ IdleTree /\ IdleResolve
  /\ IdleIntern /\ IdleCodec /\ IdlePackRead /\ IdleParse

NextFind ==
  \/ FindResolveRoot
  \/ \E i \in 1..MaxRows : FindResolveEntry(i)
  \/ \E path \in FindPaths : \E spare \in Spares : CallFind(path, spare)

SpecFind == InitFind /\ [][NextFind]_vars

\* C25: for a stored tree that was not changed in memory, Tree.Find(path)
\* gives the same hash and mode, or the same error, when it walks parsed
\* entries as when it looks in the bytes of the tree with fastFind, for
\* every path: also one that goes through an entry that is no tree, and a
\* name that another name starts with.
C25_FindAgreesWithFastFind ==
  lastFind.op = "Find" =>
    LET raw == fastFind(IdRoot, lastFind.path, fstore, lastFind.spare)
    IN  /\ lastFind.id = raw.id
        /\ lastFind.mode = raw.mode
        /\ lastFind.err = raw.err

\* The root payloads whose every entry has the mode of a file with the blob
\* and the mode of a tree with the subtree.
CanonicalRows ==
  {RowBytes(String(ModeFile), name, IdBlob) : name \in {NameA, NameADash}}
  \cup {RowBytes(String(ModeTree), name, IdSub) : name \in {NameA, NameADash}}

RECURSIVE CanonicalRowsUpTo(_)
CanonicalRowsUpTo(n) ==
  IF n = 0 THEN {<<>>}
  ELSE LET shorter == CanonicalRowsUpTo(n - 1)
       IN  shorter \cup {p \o r : p \in shorter, r \in CanonicalRows}

\* The same as C25, for the roots whose modes are those of the objects the
\* entries name.
C25_AgreesOnCanonicalTrees ==
  fstore[IdRoot].payload \in CanonicalRowsUpTo(MaxRows) =>
    C25_FindAgreesWithFastFind


(***************************************************************************)
(*             Specification of Add and Remove on a tree                   *)
(*                                                                         *)
(* The root is a new tree or a tree of the repository whose entries are    *)
(* resolved: every entry holds the object Resolve reads for it.            *)
(***************************************************************************)

\* A blob of the repository, resolved.
StoredBlob ==
  [kind |-> "blob", id |-> HashOf("blob", 1, <<7>>), Data |-> Bytes(<<7>>),
   od |-> NilData]

\* An entry of a parsed tree, with its object.
storedEntry(mode, name, obj) ==
  [Mode |-> mode, Name |-> name, Object |-> [id |-> obj.id, obj |-> obj]]

\* A tree of the repository with those entries, resolved and not dirty.
storedTree(entries) ==
  [kind |-> "tree",
   id |-> HashOf("tree", Len(entries), Serialize(entries)),
   Entries |-> entries, resolved |-> TRUE, dirty |-> FALSE]

\* The root with the file "a".
RootFileA == storedTree(<<storedEntry(ModeFile, NameA, StoredBlob)>>)

\* The root with the file "a-" and the directory "a", which holds the file
\* "a".
RootDirA ==
  storedTree(<<storedEntry(ModeFile, NameADash, StoredBlob),
               storedEntry(ModeTree, NameA, RootFileA)>>)

InitTreeEdit ==
  /\ root \in {NewTree, RootFileA, RootDirA}
  /\ ops = 0
  /\ wlog = <<>>
  /\ IdleStore /\ IdleIndex /\ IdlePack /\ IdleResolve /\ IdleIntern
  /\ IdleCodec /\ IdlePackRead /\ IdleParse /\ IdleFind

NextTreeEdit ==
  \/ \E path \in Paths : \E in \in AddInputs :
       TreeAdd(path, in.obj, in.mode)
  \/ \E path \in Paths : TreeRemove(path)

SpecTreeEdit == InitTreeEdit /\ [][NextTreeEdit]_vars

\* No two entries of a tree have the same name, in the tree and in every
\* tree below it.
RECURSIVE NamesDistinct(_)
NamesDistinct(t) ==
  /\ \A i, j \in 1..Len(t.Entries) :
       t.Entries[i].Name = t.Entries[j].Name => i = j
  /\ \A i \in 1..Len(t.Entries) :
       t.Entries[i].Object.obj.kind = "tree" =>
         NamesDistinct(t.Entries[i].Object.obj)

\* The names of the entries of a tree.
NamesOf(t) == {t.Entries[i].Name : i \in 1..Len(t.Entries)}

\* The entry of that name in a tree that has one.
EntryNamed(t, name) ==
  t.Entries[CHOOSE i \in 1..Len(t.Entries) : t.Entries[i].Name = name]

\* The last call was an Add: the tree the path's directory names has the
\* entry, once, with an object and a mode Add was called with; a name that
\* was there before did not make the tree longer.
C26_AddReplaces ==
  (ops' = ops + 1 /\ wlog'[1].typ = "add") =>
    LET dir == DirOf(wlog'[1].payload)
        name == BaseOf(wlog'[1].payload)
    IN  /\ dir \in TreePaths(root')
        /\ name \in NamesOf(TreeAt(root', dir))
        /\ \E in \in AddInputs :
             /\ EntryNamed(TreeAt(root', dir), name).Mode = in.mode
             /\ EntryNamed(TreeAt(root', dir), name).Object.obj = in.obj
        /\ dir \in TreePaths(root) =>
             /\ NamesOf(TreeAt(root', dir)) = NamesOf(TreeAt(root, dir)) \cup {name}
             /\ Len(TreeAt(root', dir).Entries) =
                  IF name \in NamesOf(TreeAt(root, dir))
                  THEN Len(TreeAt(root, dir).Entries)
                  ELSE Len(TreeAt(root, dir).Entries) + 1

\* The last call was a Remove: when the path names an entry, the tree of its
\* directory lost that entry and no other; when it names none, nothing
\* changed, no entry and no dirty flag.
C26_RemoveExact ==
  (ops' = ops + 1 /\ wlog'[1].typ = "remove") =>
    LET dir == DirOf(wlog'[1].payload)
        name == BaseOf(wlog'[1].payload)
    IN  IF dir \in TreePaths(root) /\ name \in NamesOf(TreeAt(root, dir))
        THEN /\ dir \in TreePaths(root')
             /\ NamesOf(TreeAt(root', dir)) = NamesOf(TreeAt(root, dir)) \ {name}
             /\ \A n \in NamesOf(TreeAt(root', dir)) :
                  EntryNamed(TreeAt(root', dir), n) = EntryNamed(TreeAt(root, dir), n)
             /\ Len(TreeAt(root', dir).Entries) = Len(TreeAt(root, dir).Entries) - 1
        ELSE root' = root

\* C26: from a root whose entries have distinct names, the names of every
\* tree stay distinct through Add and Remove: Add on a name that is there
\* (a file over a file, a directory over a file on the way) replaces the
\* entry, Remove deletes the entry of that name and no other, and Remove of
\* a path that is not there changes no entry and no dirty flag.
C26_NamesStayDistinct ==
  [][/\ NamesDistinct(root) => NamesDistinct(root')
     /\ C26_AddReplaces
     /\ C26_RemoveExact]_vars

\* Add("a", blob, ModeFile) was called on the stored root with the file "a":
\* the root has the one entry "a", now with the new blob.
C26_Witness ==
  /\ ops = 1
  /\ wlog # <<>> /\ wlog[1].typ = "add" /\ wlog[1].payload = <<NameA>>
  /\ root.id = RootFileA.id
  /\ Len(root.Entries) = 1
  /\ root.Entries[1].Object.obj.kind = "blob"
  /\ root.Entries[1].Object.obj.id = ZeroHash

\* Add("a/a", ...) was called on the stored root with the file "a": "a" is
\* now a directory.
C26_WitnessDirOverFile ==
  /\ ops = 1
  /\ wlog # <<>> /\ wlog[1].typ = "add" /\ wlog[1].payload = <<NameA, NameA>>
  /\ root.id = RootFileA.id
  /\ Len(root.Entries) = 1
  /\ root.Entries[1].Object.obj.kind = "tree"

\* Remove("a/a-") was called on the stored root whose directory "a" has no
\* "a-".
C26_WitnessRemoveNothing ==
  /\ ops = 1
  /\ wlog # <<>> /\ wlog[1].typ = "remove"
  /\ wlog[1].payload = <<NameA, NameADash>>
  /\ root = RootDirA

=============================================================================
